---- MODULE Spec2Model ----
(***************************************************************************)
(* A model of the biquge crawler (crawl_ce5d8cdd.py, site_ce5d8cdd.py):    *)
(* the fetch resilience layer (_fetch_with_retry), the chapter pipeline of *)
(* process_book, the book discovery of main, the pagination resolver       *)
(* (_find_next_page), the category root normaliser (_category_root) and    *)
(* the table of contents (parse_toc, write_chapters_index).                *)
(*                                                                         *)
(* Each component has its own specification over its own variables; the    *)
(* variables of the other components stay at their idle values.            *)
(***************************************************************************)
EXTENDS Integers, Sequences, FiniteSets, TLC

VARIABLES
    \* ---- _fetch_with_retry, run twice side by side (SpecFetch)
    fetch_outs,   \* per run: what fetch_text does at each attempt
    tries,        \* the tries argument
    ua_pool,      \* TRUE when a user-agent pool is configured
    fw,           \* per run: the locals of _fetch_with_retry and its effects
    \* ---- process_book, chapter pipeline (SpecBook)
    toc,          \* the ChapterRefs parse_toc returned
    overwrite,    \* args.overwrite
    retry_rounds, \* args.retry_rounds
    files,        \* chapters/*.txt of the book directory, by chapter number
    existing_prefix, \* the set built by the scan of chapters/*.txt
    futs,         \* the futures of the running pool
    fails,        \* the retry queue
    f2,           \* the queue being built by the running retry round
    rd,           \* index of the retry round
    bpc,          \* position in process_book
    run,          \* which invocation of process_book this is
    blog,         \* ghost: what each invocation fetched, wrote and queued
    \* ---- main, book discovery (SpecMain)
    site,         \* what fetch_text returns for each page URL
    cat_url,      \* the category URL
    max_books,    \* args.max_books
    found,        \* the collected book URLs
    visited_pages,
    next_url,
    tp,           \* the locals of try_paged_category
    mpc,          \* position in main
    mlog,         \* ghost: the pages fetched and the URLs in discovery order
    \* ---- _find_next_page (SpecNextPage)
    np_page, np_url, np_out,
    \* ---- _category_root (SpecRoot)
    cr_in, cr_out, cr_twice,
    \* ---- parse_toc and write_chapters_index (SpecToc)
    toc_page,      \* the anchors of the chapter list of the page
    toc_items,     \* what parse_toc returned
    chapters_json, \* the file chapters.json of the book directory
    toc_pc,
    \* ---- parse_book_meta, called twice for one book URL (SpecMeta)
    book_url,      \* the URL of the book
    meta_html,     \* per call: the detail page that was fetched
    cat_rules,     \* the configured category_rules: category name -> id
    category_hint, \* the hint of the caller, "" when it has none
    meta_out,      \* per call: the BookMeta returned
    \* ---- the two thread pools: main's book pool, one book's chapter pool
    \* (SpecPools)
    threads,       \* args.threads
    bpool,         \* per dispatched book: where its future is
    chap,          \* the chapter pool of book 1: tasks queued, running, done
    ok,            \* the success count of main
    ppc,           \* position in main
    \* ---- the HTTP sessions of the threads (SpecSession)
    tls,           \* _THREAD_LOCAL.s, per slot
    created,       \* per thread: how many sessions it has created
    sth,           \* per thread: position, session held, tasks left, attempt
    suse,          \* per session: the threads that fetched / rewrote on it
    \* ---- process_book with the outcomes of the fetches fixed (SpecOrder)
    plan,          \* per chapter: what each call of fetch_one meets
    \* ---- the book directories of the dispatched pipelines (SpecNovels)
    novels         \* listing page, dispatched urls, per pipeline: position, slug

fetchVars == <<fetch_outs, tries, ua_pool, fw>>
bookVars  == <<toc, overwrite, retry_rounds, files, existing_prefix, futs,
               fails, f2, rd, bpc, run, blog>>
mainVars  == <<site, cat_url, max_books, found, visited_pages, next_url, tp,
               mpc, mlog>>
nextVars  == <<np_page, np_url, np_out>>
rootVars  == <<cr_in, cr_out, cr_twice>>
tocVars   == <<toc_page, toc_items, chapters_json, toc_pc>>
coreVars  == <<fetchVars, bookVars, mainVars, nextVars, rootVars>>
metaVars  == <<book_url, meta_html, cat_rules, category_hint, meta_out>>
poolVars  == <<threads, bpool, chap, ok, ppc>>
sessVars  == <<tls, created, sth, suse>>
moreVars  == <<plan, novels>>
laterVars == <<tocVars, metaVars, poolVars, sessVars, moreVars>>
vars == <<coreVars, laterVars>>

None == "None"   \* Python's None

(***************************************************************************)
(* Bounds of the model.                                                    *)
(***************************************************************************)
MaxTries == 3          \* largest tries argument explored
MaxChapters == 2       \* longest table of contents explored
MaxRetryRounds == 2    \* largest --retry-rounds explored
MaxBooksCap == 4       \* largest --max-books explored
MaxSegs == 3           \* longest URL path explored by SpecRoot
MaxTocAnchors == 3     \* most anchors in a chapter list (SpecToc)
MaxThreads == 26       \* largest thread budget (SpecPools)
PoolBooks == 5         \* books dispatched (SpecPools)
MaxTasks == 2          \* tasks one pool thread runs (SpecSession)
PoolChapters == 9      \* chapters of book 1 (SpecPools)
MaxAnchors == 2        \* most pagination anchors on a page (SpecNextPage)

(***************************************************************************)
(* HTML bodies.  A body is its head text and the text lines of its content *)
(* container; the empty body "" has neither.  A line carries its length in *)
(* characters and in UTF-8 bytes and whether it ends a sentence.           *)
(***************************************************************************)
Line(t, c, b, s) == [txt |-> t, chars |-> c, bytes |-> b, stop |-> s]
LnDenied == Line("Access Denied", 13, 13, FALSE)  \* an anti-bot notice
LnLong   == Line("long paragraph.", 90, 90, TRUE) \* a full paragraph
LnMid    == Line("Hello world.", 12, 12, TRUE)
LnWan    == Line("wan", 1, 3, FALSE)              \* one CJK character
LnPrev   == Line("prev-chapter", 3, 9, FALSE)     \* the navigation line
LnBlank  == Line("", 0, 0, FALSE)

Html(h, ls) == [head |-> h, lines |-> ls]
EmptyHtml  == Html("", <<>>)                       \* the empty string
ErrVisible == Html("t", <<LnDenied>>)              \* notice in the body
ErrHead    == Html("Just a moment", <<>>)          \* notice in <title> only
ErrOther   == Html("t", <<LnDenied, LnMid>>)
GoodLong   == Html("t", <<LnLong, LnBlank, LnPrev, LnLong>>)
GoodMid    == Html("t", <<LnMid>>)
GoodShort  == Html("t", <<LnWan>>)
GoodNav    == Html("t", <<LnPrev>>)                \* navigation and no text

\* What one call of fetch_text does: it raises, or it returns a body.
Raise   == [exc |-> TRUE, body |-> EmptyHtml]
Body(h) == [exc |-> FALSE, body |-> h]

\* The marker phrases of _looks_like_error_page (the ASCII ones).
Markers == {"Access Denied", "Just a moment"}

\* crawl_ce5d8cdd.py:190-196
LooksLikeErrorPage(html) ==
    \/ html = EmptyHtml
    \/ html.head \in Markers
    \/ \E i \in 1..Len(html.lines) : html.lines[i].txt \in Markers

IsGood(html) == html # EmptyHtml /\ ~LooksLikeErrorPage(html)

(***************************************************************************)
(* _fetch_with_retry (crawl_ce5d8cdd.py:198-215).  The locals of one call  *)
(* and, as slept and rotated, the sleeps and user-agent rewrites it made.  *)
(* slept lists the factor (i + 1) of base_sleep of every sleep.            *)
(***************************************************************************)
FetchRuns == {"orig", "twin"}

\* crawl_ce5d8cdd.py:200 (ret is read only once pc is "done")
FwStart ==
    [i |-> 0, html |-> EmptyHtml, last_html |-> EmptyHtml, pc |-> "loop",
     ret |-> EmptyHtml, attempts |-> 0, slept |-> <<>>, rotated |-> 0]

\* A mutant: fetch_text is called outside the try block.
FwAttemptNoTry(st, o) ==
    IF o.exc
    THEN [st EXCEPT !.attempts = @ + 1, !.pc = "raised"]
    ELSE LET good == IsGood(o.body)
         IN  [st EXCEPT !.attempts = @ + 1, !.html = o.body,
                        !.last_html = o.body,
                        !.pc = IF good THEN "done" ELSE "sleep",
                        !.ret = IF good THEN o.body ELSE @]

\* A mutant: an attempt that raised goes on to the next one without the
\* backoff sleep.
FwAttemptSkipSleep(st, o) ==
    IF o.exc
    THEN [st EXCEPT !.attempts = @ + 1, !.html = EmptyHtml, !.i = @ + 1]
    ELSE LET good == IsGood(o.body)
         IN  [st EXCEPT !.attempts = @ + 1, !.html = o.body,
                        !.last_html = o.body,
                        !.pc = IF good THEN "done" ELSE "sleep",
                        !.ret = IF good THEN o.body ELSE @]

\* One attempt, crawl_ce5d8cdd.py:202-208: o is what fetch_text does.
FwAttempt(st, o) ==
    LET html == IF o.exc THEN EmptyHtml ELSE o.body
        good == IsGood(html)
    IN  [st EXCEPT !.attempts = @ + 1,
                   !.html = html,
                   !.last_html = IF o.exc THEN @ ELSE o.body,
                   !.pc = IF good THEN "done" ELSE "sleep",
                   !.ret = IF good THEN html ELSE @]

\* The backoff after a failed attempt, crawl_ce5d8cdd.py:209-214.
FwBackoff(st, pool) ==
    [st EXCEPT !.slept = Append(@, st.i + 1),
               !.rotated = IF pool THEN @ + 1 ELSE @,
               !.i = @ + 1,
               !.pc = "loop"]

\* A mutant: the last attempt's html is returned instead of last_html.
FwExhaustHtml(st) == [st EXCEPT !.pc = "done", !.ret = st.html]

\* The loop ran out, crawl_ce5d8cdd.py:215.
FwExhaust(st) == [st EXCEPT !.pc = "done", !.ret = st.last_html]

\* The whole call on the outcomes outs, as the steps above make it.
RECURSIVE FwRun(_, _, _, _)
FwRun(st, outs, n, pool) ==
    CASE st.pc = "loop" /\ st.i < n ->
             FwRun(FwAttempt(st, outs[st.i + 1]), outs, n, pool)
      [] st.pc = "loop" /\ st.i >= n -> FwExhaust(st)
      [] st.pc = "sleep" -> FwRun(FwBackoff(st, pool), outs, n, pool)
      [] OTHER -> st

FetchWithRetry(outs, n, pool) == FwRun(FwStart, outs, n, pool).ret

FetchOutcomes ==
    {Raise} \cup {Body(h) : h \in {EmptyHtml, ErrVisible, ErrHead, GoodMid}}

\* twin is orig with some of the attempts that raise returning "" instead.
IsTwinOf(t, o) ==
    /\ Len(t) = Len(o)
    /\ \A k \in 1..Len(o) : t[k] = o[k] \/ (o[k].exc /\ t[k] = Body(EmptyHtml))

FetchInit ==
    /\ tries \in 0..MaxTries
    /\ ua_pool \in BOOLEAN
    /\ \E o \in [1..tries -> FetchOutcomes] :
       \E t \in [1..tries -> FetchOutcomes] :
          /\ IsTwinOf(t, o)
          /\ fetch_outs = [r \in FetchRuns |-> IF r = "orig" THEN o ELSE t]
    /\ fw = [r \in FetchRuns |-> FwStart]

FetchIdle ==
    /\ tries = 0
    /\ ua_pool = FALSE
    /\ fetch_outs = <<>>
    /\ fw = <<>>

Attempt(r) ==
    /\ fw[r].pc = "loop"
    /\ fw[r].i < tries
    /\ fw' = [fw EXCEPT ![r] = FwAttempt(@, fetch_outs[r][fw[r].i + 1])]
    /\ UNCHANGED <<fetch_outs, tries, ua_pool>>
    /\ UNCHANGED <<bookVars, mainVars, nextVars, rootVars, laterVars>>

Backoff(r) ==
    /\ fw[r].pc = "sleep"
    /\ fw' = [fw EXCEPT ![r] = FwBackoff(@, ua_pool)]
    /\ UNCHANGED <<fetch_outs, tries, ua_pool>>
    /\ UNCHANGED <<bookVars, mainVars, nextVars, rootVars, laterVars>>

Exhausted(r) ==
    /\ fw[r].pc = "loop"
    /\ fw[r].i >= tries
    /\ fw' = [fw EXCEPT ![r] = FwExhaust(@)]
    /\ UNCHANGED <<fetch_outs, tries, ua_pool>>
    /\ UNCHANGED <<bookVars, mainVars, nextVars, rootVars, laterVars>>

(***************************************************************************)
(* parse_chapter_content (site_ce5d8cdd.py:273-335).  A paragraph is the   *)
(* sequence of lines it is made of: one line on the first path, the lines  *)
(* joined by single spaces up to a sentence end on the fallback path.      *)
(***************************************************************************)
MIN_LEN == 80

\* _noise_line, site_ce5d8cdd.py:296-302 (the exact-match lines)
NoiseTxt == {"prev-chapter"}
IsNoisePara(p) == Len(p) = 1 /\ p[1].txt \in NoiseTxt

\* The length of a paragraph: its lines and the spaces between them; what
\* is "chars" or "bytes".
RECURSIVE SumLines(_, _)
SumLines(p, what) ==
    IF p = <<>> THEN 0 ELSE Head(p)[what] + SumLines(Tail(p), what)

ParaLen(p, what) == SumLines(p, what) + (Len(p) - 1)

RECURSIVE SumParas(_, _)
SumParas(paras, what) ==
    IF paras = <<>> THEN 0
    ELSE ParaLen(Head(paras), what) + SumParas(Tail(paras), what)

\* site_ce5d8cdd.py:304-311: the lines that are neither blank nor noise
FirstPathParas(html) ==
    LET kept == SelectSeq(html.lines,
                          LAMBDA l : l.txt # "" /\ l.txt \notin NoiseTxt)
    IN  [k \in 1..Len(kept) |-> <<kept[k]>>]

\* site_ce5d8cdd.py:325: the normalised text split after sentence ends
RECURSIVE SplitChunks(_, _, _)
SplitChunks(ls, cur, acc) ==
    IF ls = <<>>
    THEN IF cur = <<>> THEN acc ELSE Append(acc, cur)
    ELSE LET c == Append(cur, Head(ls))
         IN  IF Head(ls).stop
             THEN SplitChunks(Tail(ls), <<>>, Append(acc, c))
             ELSE SplitChunks(Tail(ls), c, acc)

\* site_ce5d8cdd.py:313-334: the quality gate's second extraction
FallbackParas(html) ==
    LET text == SelectSeq(html.lines, LAMBDA l : l.txt # "")
    IN  SelectSeq(SplitChunks(text, <<>>, <<>>),
                  LAMBDA p : ~IsNoisePara(p))

ParseChapterContent(html) ==
    LET paras == FirstPathParas(html)
    IN  IF SumParas(paras, "chars") < MIN_LEN
        THEN FallbackParas(html)
        ELSE paras

\* The size in bytes of "\n".join(paras), crawl_ce5d8cdd.py:221
FileSize(paras) ==
    IF paras = <<>> THEN 0 ELSE SumParas(paras, "bytes") + (Len(paras) - 1)

(***************************************************************************)
(* process_book, the chapter pipeline (crawl_ce5d8cdd.py:292-351).         *)
(* A chapter href is a URL with an id; upper says that it is spelled with  *)
(* an upper-case letter.  parse_toc never returns an inert href.           *)
(***************************************************************************)
Href(n, up) == [kind |-> "url", id |-> n, upper |-> up]
InertHref == [kind |-> "inert", id |-> 0, upper |-> FALSE]  \* "#", "javascript:"
NoHref == [kind |-> "empty", id |-> 0, upper |-> FALSE]     \* "" or None

\* (ch.get("href") or "").strip().lower(), crawl_ce5d8cdd.py:305
Lower(h) == [h EXCEPT !.upper = FALSE]

\* crawl_ce5d8cdd.py:306
IsInert(h) == h.kind # "url"

ChapterTries == 3      \* crawl_ce5d8cdd.py:310
MinFileSize == 10      \* crawl_ce5d8cdd.py:297

NoFile == [exists |-> FALSE, paras |-> <<>>]
File(paras) == [exists |-> TRUE, paras |-> paras]

\* A mutant: a file of any size counts as existing.
ExistingPrefixAnySize(fs, ow) ==
    IF ow THEN {} ELSE {n \in DOMAIN fs : fs[n].exists}

\* A mutant: the scan is skipped, as with overwrite on.
ExistingPrefixNone(fs, ow) == {}

\* crawl_ce5d8cdd.py:292-300: the prefixes of the files larger than 10 bytes
ExistingPrefix(fs, ow) ==
    IF ow THEN {}
    ELSE {n \in DOMAIN fs : fs[n].exists /\ FileSize(fs[n].paras) > MinFileSize}

\* The result of fetch_one, crawl_ce5d8cdd.py:303-314.  paras is <<>> for
\* None too (only its truth value is read).  Ghost fields: fetched says that
\* _fetch_with_retry was called, html is what it returned.
Result(no, paras, href, fetched, html) ==
    [no |-> no, paras |-> paras, href |-> href, fetched |-> fetched,
     html |-> html]

ChapterOutcomes ==
    {Raise} \cup
    {Body(h) : h \in {EmptyHtml, ErrVisible, ErrHead, GoodLong, GoodShort}}

\* What the call of _fetch_with_retry in fetch_one (tries=3) can return, over
\* every sequence of attempt outcomes.
ChapterFetches ==
    {FetchWithRetry(outs, ChapterTries, FALSE) :
        outs \in [1..ChapterTries -> ChapterOutcomes]}

\* A mutant: an error page returned by _fetch_with_retry is a failure.
FetchOneChecked(ch, html, crash) ==
    LET href == Lower(ch.href)
    IN  IF IsInert(href) THEN Result(ch.no, <<>>, href, FALSE, EmptyHtml)
        ELSE IF crash THEN Result(ch.no, <<>>, ch.href, FALSE, EmptyHtml)
        ELSE Result(ch.no,
                    IF LooksLikeErrorPage(html) THEN <<>>
                    ELSE ParseChapterContent(html),
                    href, TRUE, html)

\* fetch_one: html is what its call of _fetch_with_retry returns, crash says
\* that _get_session or parse_chapter_content raised.
FetchOne(ch, html, crash) ==
    LET href == Lower(ch.href)
    IN  IF IsInert(href) THEN Result(ch.no, <<>>, href, FALSE, EmptyHtml)
        ELSE IF crash THEN Result(ch.no, <<>>, ch.href, FALSE, EmptyHtml)
        ELSE Result(ch.no, ParseChapterContent(html), href, TRUE, html)

\* A submitted future: pending until fetch_one has run and the as_completed
\* loop has taken its result.
Task(ch) == [ch |-> ch, st |-> "pending"]

\* A mutant: every chapter is submitted, whatever the directory holds.
FirstPassTasksAll(t, ow, prefix) == [k \in 1..Len(t) |-> Task(t[k])]

\* crawl_ce5d8cdd.py:319-323: the chapters submitted in the first pass
FirstPassTasks(t, ow, prefix) ==
    LET want == SelectSeq(t, LAMBDA ch : ~(~ow /\ ch.no \in prefix))
    IN  [k \in 1..Len(want) |-> Task(want[k])]

\* crawl_ce5d8cdd.py:339: one task per queued chapter
RetryTasks(q) == [k \in 1..Len(q) |-> Task([no |-> q[k][1], href |-> q[k][2]])]

\* crawl_ce5d8cdd.py:326: is the result of the first pass a failure
FirstPassFailed(res) == res.no = 0 \/ res.paras = <<>>

\* A mutant: a result is queued only when _fetch_with_retry was called.
FailsAfterFetchedOnly(q, res) ==
    IF res.fetched THEN Append(q, <<res.no, res.href>>) ELSE q

\* crawl_ce5d8cdd.py:327
FailsAfter(q, res) ==
    IF res.href.kind # "empty" THEN Append(q, <<res.no, res.href>>) ELSE q

\* A mutant: the round starts from the old queue instead of an empty list.
RetryQueueStartKeep(q) == q

\* crawl_ce5d8cdd.py:337
RetryQueueStart(q) == <<>>

\* A mutant: a chapter saved in a retry round stays queued.
F2AfterKeepSaved(q, res) == Append(q, <<res.no, res.href>>)

\* crawl_ce5d8cdd.py:342-346
F2After(q, res) ==
    IF res.paras # <<>> THEN q ELSE Append(q, <<res.no, res.href>>)

\* A mutant: a negative count is taken for its absolute value.
RoundCountAbs == IF retry_rounds > 0 THEN retry_rounds ELSE 0 - retry_rounds

\* range(max(0, args.retry_rounds)), crawl_ce5d8cdd.py:332
RoundCount == IF retry_rounds > 0 THEN retry_rounds ELSE 0

Chapters == 1..Len(toc)

\* The tables of contents parse_toc can return: no = 1..N in order.  The
\* href of chapter 1 may be spelled with an upper-case letter.
Tocs ==
    UNION {{[k \in 1..n |-> [no |-> k, href |-> Href(k, k \in ups)]] :
              ups \in SUBSET {1}} : n \in 1..MaxChapters}

\* Ghost: what the running invocation did (the chapters it passed to
\* _fetch_with_retry, those it saved, those it saved from an error page, the
\* queue that entered the last round), whether the invocation before it
\* left only files larger than MinFileSize, the files it found when it
\* scanned the directory, and per chapter the number of times fetch_one
\* was submitted for it.
NewLog(allBig) ==
    [fetched |-> {}, wrote |-> {}, fromErr |-> {}, qprev |-> <<>>,
     prevAllBig |-> allBig, start |-> <<>>,
     subs |-> [n \in 1..Len(toc) |-> 0]]

LogFetch(log, res) ==
    [log EXCEPT !.fetched = IF res.fetched THEN @ \cup {res.no} ELSE @]

\* one more submission for every task of ts
LogSubmit(log, ts) ==
    [log EXCEPT !.subs = [n \in DOMAIN @ |->
        @[n] + Cardinality({k \in 1..Len(ts) : ts[k].ch.no = n})]]

LogSave(log, res) ==
    [log EXCEPT !.wrote = @ \cup {res.no},
                !.fromErr = IF LooksLikeErrorPage(res.html)
                            THEN @ \cup {res.no} ELSE @]

BookInit ==
    /\ toc \in Tocs
    /\ overwrite \in BOOLEAN
    /\ retry_rounds \in (-1)..MaxRetryRounds
    /\ files = [n \in 1..Len(toc) |-> NoFile]
    /\ existing_prefix = {}
    /\ futs = <<>>
    /\ fails = <<>>
    /\ f2 = <<>>
    /\ rd = 0
    /\ bpc = "scan"
    /\ run = 1
    /\ blog = NewLog(FALSE)

BookIdle ==
    /\ toc = <<>> /\ overwrite = FALSE /\ retry_rounds = 0 /\ files = <<>>
    /\ existing_prefix = {} /\ futs = <<>> /\ fails = <<>> /\ f2 = <<>>
    /\ rd = 0 /\ bpc = "idle" /\ run = 0 /\ blog = <<>>

BookOnly == UNCHANGED <<fetchVars, mainVars, nextVars, rootVars, laterVars>>

\* crawl_ce5d8cdd.py:292-302
Scan ==
    /\ bpc = "scan"
    /\ existing_prefix' = ExistingPrefix(files, overwrite)
    /\ fails' = <<>>
    /\ bpc' = "submit"
    /\ blog' = [blog EXCEPT !.start = files]
    /\ UNCHANGED <<toc, overwrite, retry_rounds, files, futs, f2, rd, run>>
    /\ BookOnly

\* crawl_ce5d8cdd.py:316-323
Submit ==
    /\ bpc = "submit"
    /\ futs' = FirstPassTasks(toc, overwrite, existing_prefix)
    /\ bpc' = "first"
    /\ blog' = LogSubmit(blog, FirstPassTasks(toc, overwrite, existing_prefix))
    /\ UNCHANGED <<toc, overwrite, retry_rounds, files, existing_prefix,
                   fails, f2, rd, run>>
    /\ BookOnly

\* A mutant: the file is named from the order of arrival.
SaveChapterTextByArrival(fs, no, paras) ==
    [fs EXCEPT ![Cardinality({n \in DOMAIN fs : fs[n].exists}) + 1] = File(paras)]

\* save_chapter_text, crawl_ce5d8cdd.py:217-222
SaveChapterText(fs, no, paras) == [fs EXCEPT ![no] = File(paras)]

\* A pool thread runs fetch_one on a submitted chapter and the as_completed
\* loop of the first pass takes its result, crawl_ce5d8cdd.py:303-314 and
\* 324-330.  The futures complete, and are taken, in any order.
CompleteFirstWith(k, html, crash) ==
    /\ bpc = "first"
    /\ futs[k].st = "pending"
    /\ LET res == FetchOne(futs[k].ch, html, crash)
       IN  IF FirstPassFailed(res)
           THEN /\ fails' = FailsAfter(fails, res)
                /\ blog' = LogFetch(blog, res)
                /\ UNCHANGED files
           ELSE /\ files' = SaveChapterText(files, res.no, res.paras)
                /\ blog' = LogSave(LogFetch(blog, res), res)
                /\ UNCHANGED fails
    /\ futs' = [futs EXCEPT ![k].st = "taken"]
    /\ UNCHANGED <<toc, overwrite, retry_rounds, existing_prefix, f2, rd,
                   bpc, run>>
    /\ BookOnly

CompleteFirst(k) ==
    \E html \in ChapterFetches, crash \in BOOLEAN :
        CompleteFirstWith(k, html, crash)

AllTaken == \A k \in 1..Len(futs) : futs[k].st = "taken"

\* The first pass is over, crawl_ce5d8cdd.py:330-332.
EndFirst ==
    /\ bpc = "first"
    /\ AllTaken
    /\ bpc' = "rounds"
    /\ rd' = 0
    /\ futs' = <<>>
    /\ UNCHANGED <<toc, overwrite, retry_rounds, files, existing_prefix,
                   fails, f2, run, blog>>
    /\ BookOnly

\* A retry round starts, crawl_ce5d8cdd.py:332-339.
RetryRound ==
    /\ bpc = "rounds"
    /\ rd < RoundCount
    /\ fails # <<>>
    /\ f2' = RetryQueueStart(fails)
    /\ futs' = RetryTasks(fails)
    /\ bpc' = "retry"
    /\ blog' = LogSubmit([blog EXCEPT !.qprev = fails], RetryTasks(fails))
    /\ UNCHANGED <<toc, overwrite, retry_rounds, files, existing_prefix,
                   fails, rd, run>>
    /\ BookOnly

\* A pool thread runs fetch_one on a queued chapter and the as_completed
\* loop of the retry round takes its result, crawl_ce5d8cdd.py:340-346.
CompleteRetryWith(k, html, crash) ==
    /\ bpc = "retry"
    /\ futs[k].st = "pending"
    /\ LET res == FetchOne(futs[k].ch, html, crash)
       IN  /\ f2' = F2After(f2, res)
           /\ IF res.paras # <<>>
              THEN /\ files' = SaveChapterText(files, res.no, res.paras)
                   /\ blog' = LogSave(LogFetch(blog, res), res)
              ELSE /\ blog' = LogFetch(blog, res)
                   /\ UNCHANGED files
    /\ futs' = [futs EXCEPT ![k].st = "taken"]
    /\ UNCHANGED <<toc, overwrite, retry_rounds, existing_prefix, fails, rd,
                   bpc, run>>
    /\ BookOnly

CompleteRetry(k) ==
    \E html \in ChapterFetches, crash \in BOOLEAN :
        CompleteRetryWith(k, html, crash)

\* The round is over, crawl_ce5d8cdd.py:347.
EndRound ==
    /\ bpc = "retry"
    /\ AllTaken
    /\ fails' = f2
    /\ f2' = <<>>
    /\ rd' = rd + 1
    /\ bpc' = "rounds"
    /\ futs' = <<>>
    /\ UNCHANGED <<toc, overwrite, retry_rounds, files, existing_prefix, run,
                   blog>>
    /\ BookOnly

\* No round is left or nothing is queued, crawl_ce5d8cdd.py:332-351.
Finish ==
    /\ bpc = "rounds"
    /\ rd >= RoundCount \/ fails = <<>>
    /\ bpc' = "done"
    /\ UNCHANGED <<toc, overwrite, retry_rounds, files, existing_prefix,
                   futs, fails, f2, rd, run, blog>>
    /\ BookOnly

BookRuns == {1, 2}

\* The crawl is resumed: process_book is invoked again on the same book,
\* without the overwrite flag and with an unchanged table of contents, after
\* an invocation that saved every chapter; it finds the files of the first.
Rerun ==
    /\ bpc = "done"
    /\ run + 1 \in BookRuns
    /\ ~overwrite
    /\ blog.wrote = Chapters
    /\ run' = run + 1
    /\ bpc' = "scan"
    /\ blog' = NewLog(\A n \in Chapters :
                          FileSize(files[n].paras) > MinFileSize)
    /\ existing_prefix' = {}
    /\ fails' = <<>>
    /\ f2' = <<>>
    /\ rd' = 0
    /\ UNCHANGED <<toc, overwrite, retry_rounds, files, futs>>
    /\ BookOnly

\* process_book on a book whose chapters directory holds files already: of
\* chapter 1 a file of 3 bytes or of 90 bytes, of chapter 2 no file or a
\* file of 90 bytes, of a later chapter no file
OldSmall == File(<<<<LnWan>>>>)
OldBig == File(<<<<LnLong>>>>)

OldFiles(n) ==
    IF n = 1 THEN {OldSmall, OldBig}
    ELSE IF n = 2 THEN {NoFile, OldBig}
    ELSE {NoFile}

ResumeInit ==
    /\ toc \in Tocs
    /\ overwrite \in BOOLEAN
    /\ retry_rounds \in 0..MaxRetryRounds
    /\ files \in {f \in [1..Len(toc) -> {NoFile, OldSmall, OldBig}] :
                    \A n \in 1..Len(toc) : f[n] \in OldFiles(n)}
    /\ existing_prefix = {}
    /\ futs = <<>>
    /\ fails = <<>>
    /\ f2 = <<>>
    /\ rd = 0
    /\ bpc = "scan"
    /\ run = 1
    /\ blog = NewLog(FALSE)

\* Tables of contents with a chapter that fetch_one takes for inert.
\* parse_toc tests the attribute as written and stores urljoin(book_url,
\* href) (site_ce5d8cdd.py:218-227, 247-251): an anchor written
\* href="vo&#9;id(0)" with the text of a chapter passes the test, urljoin
\* drops the tab, and the stored href ends in void(0) .
InertTocs ==
    UNION {{t \in [1..n -> [no : 1..n, href : {Href(1, FALSE), Href(2, FALSE), InertHref}]] :
              /\ \A k \in 1..n :
                    /\ t[k].no = k
                    /\ t[k].href.kind = "url" => t[k].href.id = k
              /\ \E k \in 1..n : t[k].href = InertHref} : n \in 1..MaxChapters}

InertInit ==
    /\ toc \in InertTocs
    /\ overwrite \in BOOLEAN
    /\ retry_rounds \in 0..MaxRetryRounds
    /\ files \in {f \in [1..Len(toc) -> {NoFile, OldSmall, OldBig}] :
                    \A n \in 1..Len(toc) : f[n] \in OldFiles(n)}
    /\ existing_prefix = {}
    /\ futs = <<>>
    /\ fails = <<>>
    /\ f2 = <<>>
    /\ rd = 0
    /\ bpc = "scan"
    /\ run = 1
    /\ blog = NewLog(FALSE)

CompleteSomeFirst == \E k \in 1..Len(futs) : CompleteFirst(k)
CompleteSomeRetry == \E k \in 1..Len(futs) : CompleteRetry(k)

\* one invocation of process_book
ResumeNext ==
    \/ Scan
    \/ Submit
    \/ CompleteSomeFirst
    \/ EndFirst
    \/ RetryRound
    \/ CompleteSomeRetry
    \/ EndRound
    \/ Finish

\* process_book with the outcome of every call of fetch_one fixed before
\* it starts: the calls for a chapter before its call number at fail (a
\* crash of fetch_one, or an empty page), the call number at and the later
\* ones meet the chapter's page.  The first pass makes call 1, the retry
\* round rd call rd + 2.
PlanKinds ==
    [at : 1..(MaxRetryRounds + 2), crash : BOOLEAN]

PlannedHtml(n, a) == IF a >= plan[n].at THEN GoodLong ELSE EmptyHtml
PlannedCrash(n, a) == a < plan[n].at /\ plan[n].crash

OrderInit ==
    /\ toc \in Tocs
    /\ overwrite = FALSE
    /\ retry_rounds \in 0..MaxRetryRounds
    /\ files = [n \in 1..Len(toc) |-> NoFile]
    /\ plan \in [1..Len(toc) -> PlanKinds]
    /\ novels = <<>>
    /\ existing_prefix = {}
    /\ futs = <<>>
    /\ fails = <<>>
    /\ f2 = <<>>
    /\ rd = 0
    /\ bpc = "scan"
    /\ run = 1
    /\ blog = NewLog(FALSE)

PlannedFirst ==
    \E k \in 1..Len(futs) :
        CompleteFirstWith(k, PlannedHtml(futs[k].ch.no, 1),
                          PlannedCrash(futs[k].ch.no, 1))

PlannedRetry ==
    \E k \in 1..Len(futs) :
        CompleteRetryWith(k, PlannedHtml(futs[k].ch.no, rd + 2),
                          PlannedCrash(futs[k].ch.no, rd + 2))

OrderNext ==
    \/ Scan
    \/ Submit
    \/ PlannedFirst
    \/ EndFirst
    \/ RetryRound
    \/ PlannedRetry
    \/ EndRound
    \/ Finish

BookNext ==
    \/ Scan
    \/ Submit
    \/ \E k \in 1..Len(futs) : CompleteFirst(k)
    \/ EndFirst
    \/ RetryRound
    \/ \E k \in 1..Len(futs) : CompleteRetry(k)
    \/ EndRound
    \/ Finish
    \/ Rerun

(***************************************************************************)
(* URLs.  A URL of the site is the sequence of the segments of its path,   *)
(* each written after a "/": a word, digits, "n.html", "index_n.html", the *)
(* empty segment a trailing slash leaves, or the query "?page=n" (written  *)
(* without a slash).                                                       *)
(***************************************************************************)
Seg(k, w, v) == [k |-> k, w |-> w, v |-> v]
W(w)  == Seg("w", w, 0)       \* a word, such as list or index.html
N(n)  == Seg("n", "", n)      \* digits
NH(n) == Seg("nh", "", n)     \* n.html
IX(n) == Seg("ix", "", n)     \* index_n.html
Q(n)  == Seg("q", "", n)      \* ?page=n
E     == W("")                \* nothing after the slash

Front(u) == SubSeq(u, 1, Len(u) - 1)
Last(u) == u[Len(u)]

\* cat_url.rstrip('/'), crawl_ce5d8cdd.py:152
RECURSIVE RStripSlash(_)
RStripSlash(u) ==
    IF u # <<>> /\ Last(u) = E THEN RStripSlash(Front(u)) ELSE u

\* re.sub(r"/index_\d+\.html$", "", u), crawl_ce5d8cdd.py:153
StripIndexPage(u) ==
    IF u # <<>> /\ Last(u).k = "ix" THEN Front(u) ELSE u

\* re.sub(r"/(?:page/)?\d+(?:\.html)?$", "", u), crawl_ce5d8cdd.py:154
StripPageNumber(u) ==
    IF u # <<>> /\ Last(u).k \in {"n", "nh"}
    THEN IF Len(u) >= 2 /\ u[Len(u) - 1] = W("page")
         THEN SubSeq(u, 1, Len(u) - 2)
         ELSE Front(u)
    ELSE u

\* _category_root, crawl_ce5d8cdd.py:146-155: both substitutions are applied,
\* one after the other.
CategoryRoot(u) == StripPageNumber(StripIndexPage(RStripSlash(u)))

RootSegs == {W("list"), W("page"), N(10), N(2), NH(2), IX(2), E}

RECURSIVE SeqsUpTo(_, _)
SeqsUpTo(S, n) ==
    IF n = 0 THEN {<<>>}
    ELSE LET shorter == SeqsUpTo(S, n - 1)
         IN  shorter \cup {Append(q, x) : q \in shorter, x \in S}

\* The category URLs explored: every path of up to MaxSegs segments with
\* something in it.
RootInputs == SeqsUpTo(RootSegs, MaxSegs) \ {<<>>}

Unset == [set |-> FALSE, url |-> <<>>]
Val(u) == [set |-> TRUE, url |-> u]

RootInit ==
    /\ cr_in \in RootInputs
    /\ cr_out = Unset
    /\ cr_twice = Unset

RootIdle == cr_in = <<>> /\ cr_out = <<>> /\ cr_twice = <<>>

RootOnly == UNCHANGED <<fetchVars, bookVars, mainVars, nextVars, laterVars>>

\* base_root = _category_root(cat_url), crawl_ce5d8cdd.py:162
ApplyRoot ==
    /\ ~cr_out.set
    /\ cr_out' = Val(CategoryRoot(cr_in))
    /\ UNCHANGED <<cr_in, cr_twice>>
    /\ RootOnly

\* _category_root applied to the root it returned
ApplyRootAgain ==
    /\ cr_out.set
    /\ ~cr_twice.set
    /\ cr_twice' = Val(CategoryRoot(cr_out.url))
    /\ UNCHANGED <<cr_in, cr_out>>
    /\ RootOnly

RootNext == ApplyRoot \/ ApplyRootAgain

(***************************************************************************)
(* Pages.  A listing page is the sequence of its anchors in document       *)
(* order.  An anchor has an href (absent, empty, blank, a URL of the site, *)
(* or one relative segment), the list that holds it and its marks.         *)
(*   box:   "pagelink"    <ul class="pagination" id="pagelink"> <li>       *)
(*          "loose"       <ul class="pagination-sm" id="pagelink"> <li>    *)
(*          "pagination"  <ul class="pagination"> <li>, another id         *)
(*          "list"        <ul> <li>, or one of the listing containers      *)
(*          "none"        outside every list                               *)
(*   marks: "next" class="next"; "rel" rel="next"; "after" in the <li>     *)
(*          that follows li.active; "gt" the text is ">"                   *)
(***************************************************************************)
HUrl(u)  == [t |-> "url", url |-> u]
HRel(sg) == [t |-> "rel", url |-> <<sg>>]
HEmpty   == [t |-> "empty", url |-> <<>>]
HBlank   == [t |-> "blank", url |-> <<>>]
HMissing == [t |-> "missing", url |-> <<>>]

A(href, box, marks) == [href |-> href, box |-> box, marks |-> marks]

\* urlparse(u).path: the query is not part of the path
PathOf(u) == IF u # <<>> /\ Last(u).k = "q" THEN Front(u) ELSE u

\* urljoin(base, href.strip())
UrlJoin(base, h) ==
    CASE h.t = "url" -> h.url
      [] h.t = "rel" -> Front(PathOf(base)) \o h.url
      [] OTHER       -> base

LowerWord(w) ==
    CASE w = "Book" -> "book"
      [] w = "Index.html" -> "index.html"
      [] OTHER -> w

\* _looks_like_book, crawl_ce5d8cdd.py:76-84, on a URL of the site
LooksLikeBook(u) ==
    LET p == PathOf(u) IN
    /\ Len(p) \in {2, 3}
    /\ p[1].k = "w" /\ LowerWord(p[1].w) = "book"
    /\ \/ Len(p) = 2 /\ p[2].k = "nh"
       \/ Len(p) = 3 /\ p[2].k = "n" /\ p[3].k = "w"
          /\ LowerWord(p[3].w) \in {"", "index.html"}

\* the href holds the characters /book/ : selector a[href*="/book/"]
HasBookLiteral(h) ==
    /\ h.t = "url"
    /\ \E i \in 1..(Len(h.url) - 1) : h.url[i] = W("book") /\ h.url[i + 1].k # "q"

\* href=['"]([^'"]*/book/\d+[^'"]*)['"] with re.I, crawl_ce5d8cdd.py:104
MatchesBookRegex(h) ==
    /\ h.t = "url"
    /\ \E i \in 1..(Len(h.url) - 1) :
          /\ h.url[i].k = "w" /\ LowerWord(h.url[i].w) = "book"
          /\ h.url[i + 1].k \in {"n", "nh"}

HasHref(a) == a.href.t # "missing"
BySelectorOne(a) == HasHref(a) /\ HasBookLiteral(a.href)
ByListSelectors(a) == HasHref(a) /\ a.box # "none"
ByRegex(a) == HasHref(a) /\ MatchesBookRegex(a.href)

RECURSIVE Hrefs(_)
Hrefs(as) == IF as = <<>> THEN <<>> ELSE <<Head(as).href>> \o Hrefs(Tail(as))

\* out, seen loop of crawl_ce5d8cdd.py:107-111
RECURSIVE KeepBooks(_, _, _)
KeepBooks(hrefs, base, out) ==
    IF hrefs = <<>> THEN out
    ELSE LET u == UrlJoin(base, Head(hrefs))
             seenU == \E i \in 1..Len(out) : out[i] = u
         IN  KeepBooks(Tail(hrefs), base,
                       IF LooksLikeBook(u) /\ ~seenU THEN Append(out, u) ELSE out)

\* the selector loop of crawl_ce5d8cdd.py:99-102 with the two groups swapped
SelectedHrefsListFirst(page) ==
    Hrefs(SelectSeq(page, ByListSelectors)) \o Hrefs(SelectSeq(page, BySelectorOne))

\* crawl_ce5d8cdd.py:99-105.  The hrefs are gathered selector by selector:
\* first every a[href*="/book/"], then the anchors of the listing containers
\* and of ul li; the regular expression is tried when no selector matched.
SelectedHrefs(page) ==
    Hrefs(SelectSeq(page, BySelectorOne)) \o Hrefs(SelectSeq(page, ByListSelectors))

AllHrefs(page) ==
    IF SelectedHrefs(page) # <<>> THEN SelectedHrefs(page)
    ELSE Hrefs(SelectSeq(page, ByRegex))

\* list_books_in_category, crawl_ce5d8cdd.py:86-112
ListBooksInCategory(page, base_url) == KeepBooks(AllHrefs(page), base_url, <<>>)

MatchA(a) == a.box = "pagelink" /\ "next" \in a.marks
MatchB(a) == "rel" \in a.marks
MatchC(a) == a.box = "pagelink" /\ "after" \in a.marks
MatchD1(a) == a.box \in {"pagelink", "loose"} /\ "gt" \in a.marks
MatchD2(a) == a.box \in {"pagelink", "loose", "pagination"} /\ "gt" \in a.marks

\* the five selectors of _find_next_page, in the order they are tried
Matches(a, st) ==
    CASE st = 1 -> MatchA(a)
      [] st = 2 -> MatchB(a)
      [] st = 3 -> MatchC(a)
      [] st = 4 -> MatchD1(a)
      [] st = 5 -> MatchD2(a)

\* sel.css(...).get(): the href of the first match that has one, or None
FirstHref(page, st) ==
    LET I == {i \in 1..Len(page) : Matches(page[i], st) /\ HasHref(page[i])}
    IN  IF I = {} THEN HMissing
        ELSE page[CHOOSE i \in I : \A j \in I : i <= j].href

\* "if href:" is false for None and for the empty string
Truthy(h) == h.t \notin {"missing", "empty"}

\* _find_next_page with a[rel="next"] tried before the pagination list
FindNextPageRelFirst(page, page_url) ==
    CASE Truthy(FirstHref(page, 2)) -> Val(UrlJoin(page_url, FirstHref(page, 2)))
      [] Truthy(FirstHref(page, 1)) -> Val(UrlJoin(page_url, FirstHref(page, 1)))
      [] OTHER -> Unset

\* _find_next_page, crawl_ce5d8cdd.py:114-144
FindNextPage(page, page_url) ==
    IF Truthy(FirstHref(page, 1))
    THEN Val(UrlJoin(page_url, FirstHref(page, 1)))
    ELSE IF Truthy(FirstHref(page, 2))
    THEN Val(UrlJoin(page_url, FirstHref(page, 2)))
    ELSE IF Truthy(FirstHref(page, 3))
    THEN Val(UrlJoin(page_url, FirstHref(page, 3)))
    ELSE IF Truthy(FirstHref(page, 4))
    THEN Val(UrlJoin(page_url, FirstHref(page, 4)))
    ELSE IF Truthy(FirstHref(page, 5))
    THEN Val(UrlJoin(page_url, FirstHref(page, 5)))
    ELSE Unset

(***************************************************************************)
(* _find_next_page on its own: every page of up to MaxAnchors anchors      *)
(* drawn from NavAnchors, each anchor with a target of its own.            *)
(***************************************************************************)
PageUrl == <<W("xuanhuan"), E>>
Target(n) == <<W("xuanhuan"), NH(n)>>

NavAnchors ==
    { A(HUrl(Target(1)), "pagelink", {"next"}),
      A(HEmpty, "pagelink", {"next"}),
      A(HMissing, "pagelink", {"next"}),
      A(HUrl(Target(2)), "none", {"rel"}),
      A(HBlank, "none", {"rel"}),
      A(HUrl(Target(3)), "pagelink", {"after"}),
      A(HRel(NH(4)), "pagelink", {"gt"}),
      A(HUrl(Target(5)), "loose", {"gt"}),
      A(HUrl(Target(6)), "pagination", {"gt"}),
      A(HUrl(Target(7)), "pagination", {"next"}),
      A(HUrl(Target(8)), "none", {"gt"}),
      A(HUrl(Target(9)), "list", {}) }

NavPages == SeqsUpTo(NavAnchors, MaxAnchors)

NextInit ==
    /\ np_page \in NavPages
    /\ np_url = PageUrl
    /\ np_out = [done |-> FALSE, next |-> Unset]

NextIdle == np_page = <<>> /\ np_url = <<>> /\ np_out = <<>>

\* next_url = _find_next_page(html, cat_url), crawl_ce5d8cdd.py:433
Resolve ==
    /\ ~np_out.done
    /\ np_out' = [done |-> TRUE, next |-> FindNextPage(np_page, np_url)]
    /\ UNCHANGED <<np_page, np_url>>
    /\ UNCHANGED <<fetchVars, bookVars, mainVars, rootVars, laterVars>>

NextPageNext == Resolve

(***************************************************************************)
(* main: the discovery of the book URLs of a category.  The site is a      *)
(* function from the URLs that answer to their pages; fetch_text raises    *)
(* for every other URL.                                                    *)
(***************************************************************************)
Fetch(st, url) ==
    IF url \in DOMAIN st
    THEN [exc |-> FALSE, page |-> st[url]]
    ELSE [exc |-> TRUE, page |-> <<>>]

B(n)  == <<W("book"), N(n), E>>      \* /book/n/
BU(n) == <<W("Book"), N(n), E>>      \* /Book/n/
BookLink(u) == A(HUrl(u), "list", {})
NextLink(u) == A(HUrl(u), "pagelink", {"next"})
RelNext(u)  == A(HUrl(u), "none", {"rel"})
GtLink(u)   == A(HUrl(u), "pagination", {"gt"})

\* the four url templates of try_paged_category, crawl_ce5d8cdd.py:164-169
Patterns(base_root, n) ==
    << base_root \o <<NH(n)>>,
       base_root \o <<IX(n)>>,
       base_root \o <<W("page"), N(n)>>,
       base_root \o <<Q(n)>> >>

CatUrls == { <<W("xuanhuan"), E>>, <<W("list"), N(10), E>> }

NoPage == <<>> :> <<>>
Only(url, page) == url :> page

\* the first page of the category
FirstPages(cat) ==
    LET p2 == Patterns(CategoryRoot(cat), 2)[1] IN
    { NoPage,
      Only(cat, <<BookLink(B(1)), BookLink(B(2)), NextLink(p2)>>),
      Only(cat, <<BookLink(BU(9)), BookLink(B(1)), BookLink(B(1)), RelNext(p2)>>),
      Only(cat, <<BookLink(B(1)), BookLink(B(2)), BookLink(B(3))>>) }

\* the second page, at the first template url
SecondPages(cat) ==
    LET p2 == Patterns(CategoryRoot(cat), 2)[1]
        p3 == Patterns(CategoryRoot(cat), 3)[1]
    IN  { NoPage,
          Only(p2, <<BookLink(B(2)), BookLink(B(3)), NextLink(cat)>>),
          Only(p2, <<BookLink(B(3)), BookLink(B(4)), RelNext(p3)>>) }

\* the third page links to itself
ThirdPages(cat) ==
    LET p3 == Patterns(CategoryRoot(cat), 3)[1]
    IN  { NoPage, Only(p3, <<BookLink(B(5)), GtLink(p3)>>) }

\* pages that only the other templates reach
OtherPages(cat) ==
    LET root == CategoryRoot(cat)
    IN  { NoPage,
          Only(Patterns(root, 2)[3], <<BookLink(B(6)), BookLink(B(1))>>)
            @@ Only(Patterns(root, 3)[4], <<BookLink(B(7))>>) }

\* five books and a rel="next" link to a page with three more, one of them
\* on the first page already; no template url answers
ScenarioCat == <<W("xuanhuan"), E>>
ScenarioNext == <<W("xuanhuan"), W("more")>>
ScenarioSite ==
    Only(ScenarioCat, <<BookLink(B(1)), BookLink(B(2)), BookLink(B(3)),
                        BookLink(B(4)), BookLink(B(5)), RelNext(ScenarioNext)>>)
      @@ Only(ScenarioNext, <<BookLink(B(6)), BookLink(B(5)), BookLink(B(7))>>)

Without(f, x) == [y \in (DOMAIN f) \ {x} |-> f[y]]

Sites(cat) ==
    { Without(f @@ g @@ h @@ o, <<>>) :
        f \in FirstPages(cat), g \in SecondPages(cat),
        h \in ThirdPages(cat), o \in OtherPages(cat) }
      \cup (IF cat = ScenarioCat THEN {ScenarioSite} ELSE {})

Capped(M, fnd) == M # 0 /\ Len(fnd) >= M
Has(fnd, u) == \E i \in 1..Len(fnd) : fnd[i] = u
Take(fnd, M) == SubSeq(fnd, 1, IF Len(fnd) < M THEN Len(fnd) ELSE M)

\* the loop of crawl_ce5d8cdd.py:425-429
RECURSIVE AddFirstPage(_, _, _)
AddFirstPage(fnd, books, M) ==
    IF books = <<>> THEN fnd
    ELSE LET f1 == IF Has(fnd, Head(books)) THEN fnd ELSE Append(fnd, Head(books))
         IN  IF Capped(M, f1) THEN Take(f1, M)
             ELSE AddFirstPage(f1, Tail(books), M)

\* the loop of crawl_ce5d8cdd.py:441-445 without its cap test
RECURSIVE AddChainPageNoCap(_, _, _)
AddChainPageNoCap(fnd, more, M) ==
    IF more = <<>> THEN fnd
    ELSE AddChainPageNoCap(IF Has(fnd, Head(more)) THEN fnd ELSE Append(fnd, Head(more)),
                           Tail(more), M)

\* the loop of crawl_ce5d8cdd.py:441-445 without the membership test
RECURSIVE AddChainPageAgain(_, _, _)
AddChainPageAgain(fnd, more, M) ==
    IF more = <<>> THEN fnd
    ELSE LET f1 == Append(fnd, Head(more))
         IN  IF Capped(M, f1) THEN f1
             ELSE AddChainPageAgain(f1, Tail(more), M)

\* the loop of crawl_ce5d8cdd.py:441-445
RECURSIVE AddChainPage(_, _, _)
AddChainPage(fnd, more, M) ==
    IF more = <<>> THEN fnd
    ELSE IF Has(fnd, Head(more)) THEN AddChainPage(fnd, Tail(more), M)
    ELSE LET f1 == Append(fnd, Head(more))
         IN  IF Capped(M, f1) THEN f1
             ELSE AddChainPage(f1, Tail(more), M)

\* the loop of crawl_ce5d8cdd.py:453-457
RECURSIVE AddTemplates(_, _, _)
AddTemplates(fnd, more, M) ==
    IF more = <<>> THEN fnd
    ELSE LET f1 == IF Has(fnd, Head(more)) THEN fnd ELSE Append(fnd, Head(more))
         IN  IF Capped(M, f1) THEN Take(f1, M)
             ELSE AddTemplates(f1, Tail(more), M)

\* try_paged_category, the loop over the items of one page,
\* crawl_ce5d8cdd.py:182-186
RECURSIVE AddItems(_, _, _)
AddItems(t, items, M) ==
    IF items = <<>> \/ t.returned THEN t
    ELSE IF Has(t.found, Head(items)) THEN AddItems(t, Tail(items), M)
    ELSE LET f1 == Append(t.found, Head(items))
             t1 == [t EXCEPT !.found = f1, !.hit = t.hit + 1]
         IN  IF Capped(M, f1)
             THEN [t1 EXCEPT !.found = Take(f1, M), !.returned = TRUE]
             ELSE AddItems(t1, Tail(items), M)

\* the loop over the patterns left at the first fetch exception
RECURSIVE ScanPatternsBreak(_, _, _, _, _)
ScanPatternsBreak(t, urls, st, cat, M) ==
    IF urls = <<>> \/ t.returned THEN t
    ELSE LET r == Fetch(st, Head(urls))
             ta == [t EXCEPT !.asked = Append(t.asked, Head(urls))]
         IN  IF r.exc THEN ta
             ELSE ScanPatternsBreak(
                    AddItems([ta EXCEPT !.pages = Append(ta.pages, Head(urls))],
                             ListBooksInCategory(r.page, cat), M),
                    Tail(urls), st, cat, M)

\* try_paged_category, the loop over the patterns for one n,
\* crawl_ce5d8cdd.py:175-186; asked is the list of the urls it requested,
\* pages the list of the pages it listed
RECURSIVE ScanPatterns(_, _, _, _, _)
ScanPatterns(t, urls, st, cat, M) ==
    IF urls = <<>> \/ t.returned THEN t
    ELSE LET r == Fetch(st, Head(urls))
             ta == [t EXCEPT !.asked = Append(t.asked, Head(urls))]
         IN  IF r.exc THEN ScanPatterns(ta, Tail(urls), st, cat, M)
             ELSE ScanPatterns(
                    AddItems([ta EXCEPT !.pages = Append(ta.pages, Head(urls))],
                             ListBooksInCategory(r.page, cat), M),
                    Tail(urls), st, cat, M)

TpIdle == [n |-> 0, found |-> <<>>, hit |-> 0, returned |-> FALSE,
           pages |-> <<>>, asked |-> <<>>, budget |-> 0]

\* what one turn of the loop over n did
Round(t) == [n |-> t.n, hit |-> t.hit, asked |-> t.asked, capped |-> t.returned]

\* visited_pages without the category url
VisitedStartEmpty(cat) == {}

\* crawl_ce5d8cdd.py:432
VisitedStart(cat) == {cat}

PageLog(stage, url, base) == [stage |-> stage, url |-> url, base |-> base]

RECURSIVE Logged(_, _)
Logged(urls, base) ==
    IF urls = <<>> THEN <<>>
    ELSE <<PageLog(3, Head(urls), base)>> \o Logged(Tail(urls), base)

MainInit ==
    /\ cat_url \in CatUrls
    /\ site \in Sites(cat_url)
    /\ max_books \in 0..MaxBooksCap
    /\ found = <<>>
    /\ visited_pages = {}
    /\ next_url = Unset
    /\ tp = TpIdle
    /\ mpc = "first"
    /\ mlog = [pages |-> <<>>, dispatched |-> <<>>, tried |-> <<>>,
               rounds |-> <<>>]

MainOnly == UNCHANGED <<fetchVars, bookVars, nextVars, rootVars, laterVars>>

\* crawl_ce5d8cdd.py:418-433: the first page of the category
FirstPage ==
    /\ mpc = "first"
    /\ LET r == Fetch(site, cat_url)
           books == ListBooksInCategory(r.page, cat_url)
       IN  /\ found' = AddFirstPage(<<>>, books, max_books)
           /\ next_url' = FindNextPage(r.page, cat_url)
           /\ mlog' = [mlog EXCEPT !.pages = <<PageLog(1, cat_url, cat_url)>>]
    /\ visited_pages' = VisitedStart(cat_url)
    /\ mpc' = "chain"
    /\ UNCHANGED <<site, cat_url, max_books, tp>>
    /\ MainOnly

ChainGoesOn ==
    /\ next_url.set
    /\ next_url.url \notin visited_pages
    /\ ~Capped(max_books, found)

\* crawl_ce5d8cdd.py:434-448: one turn of the loop over the next links
ChainStep ==
    /\ mpc = "chain"
    /\ ChainGoesOn
    /\ visited_pages' = visited_pages \cup {next_url.url}
    /\ LET r == Fetch(site, next_url.url)
           more == ListBooksInCategory(r.page, next_url.url)
           f1 == AddChainPage(found, more, max_books)
       IN  IF r.exc
           THEN /\ mpc' = "templates"
                /\ mlog' = [mlog EXCEPT !.tried = Append(@, next_url.url)]
                /\ UNCHANGED <<found, next_url>>
           ELSE /\ found' = f1
                /\ mlog' = [mlog EXCEPT
                              !.tried = Append(@, next_url.url),
                              !.pages =
                                Append(@, PageLog(2, next_url.url, next_url.url))]
                /\ IF Capped(max_books, f1)
                   THEN mpc' = "templates" /\ UNCHANGED next_url
                   ELSE /\ mpc' = "chain"
                        /\ next_url' = FindNextPage(r.page, next_url.url)
    /\ UNCHANGED <<site, cat_url, max_books, tp>>
    /\ MainOnly

\* crawl_ce5d8cdd.py:434: the loop condition is false
ChainEnd ==
    /\ mpc = "chain"
    /\ ~ChainGoesOn
    /\ mpc' = "templates"
    /\ UNCHANGED <<site, cat_url, max_books, found, visited_pages, next_url, tp, mlog>>
    /\ MainOnly

\* crawl_ce5d8cdd.py:451-452 and 162-171: try_paged_category is entered
TemplatesStart ==
    /\ mpc = "templates"
    /\ ~Capped(max_books, found)
    /\ tp' = [TpIdle EXCEPT !.n = 1,
                !.budget = IF max_books # 0 THEN max_books - Len(found) ELSE 0]
    /\ mpc' = "paged"
    /\ UNCHANGED <<site, cat_url, max_books, found, visited_pages, next_url, mlog>>
    /\ MainOnly

\* crawl_ce5d8cdd.py:451: the cap is reached, no template is tried
TemplatesSkip ==
    /\ mpc = "templates"
    /\ Capped(max_books, found)
    /\ mpc' = "dispatch"
    /\ UNCHANGED <<site, cat_url, max_books, found, visited_pages, next_url, tp, mlog>>
    /\ MainOnly

\* crawl_ce5d8cdd.py:172-188: one turn of the loop over n
TemplatePage ==
    /\ mpc = "paged"
    /\ ~tp.returned
    /\ LET n1 == tp.n + 1
           t0 == [tp EXCEPT !.n = n1, !.hit = 0, !.pages = <<>>,
                            !.asked = <<>>]
           t1 == ScanPatterns(t0, Patterns(CategoryRoot(cat_url), n1),
                              site, cat_url, tp.budget)
       IN  /\ tp' = [t1 EXCEPT !.returned = t1.returned \/ t1.hit = 0]
           /\ mlog' = [mlog EXCEPT !.pages = @ \o Logged(t1.pages, cat_url),
                                    !.rounds = Append(@, Round(t1))]
    /\ UNCHANGED <<site, cat_url, max_books, found, visited_pages, next_url, mpc>>
    /\ MainOnly

\* crawl_ce5d8cdd.py:453-457: what try_paged_category returned is merged
TemplatesMerge ==
    /\ mpc = "paged"
    /\ tp.returned
    /\ found' = AddTemplates(found, tp.found, max_books)
    /\ mpc' = "dispatch"
    /\ UNCHANGED <<site, cat_url, max_books, visited_pages, next_url, tp, mlog>>
    /\ MainOnly

\* crawl_ce5d8cdd.py:466: one process_book is submitted for every url found
Dispatch ==
    /\ mpc = "dispatch"
    /\ mlog' = [mlog EXCEPT !.dispatched = found]
    /\ mpc' = "done"
    /\ UNCHANGED <<site, cat_url, max_books, found, visited_pages, next_url, tp>>
    /\ MainOnly

MainNext ==
    \/ FirstPage
    \/ ChainStep
    \/ ChainEnd
    \/ TemplatesStart
    \/ TemplatesSkip
    \/ TemplatePage
    \/ TemplatesMerge
    \/ Dispatch

MainIdle ==
    /\ site = <<>> /\ cat_url = <<>> /\ max_books = 0 /\ found = <<>>
    /\ visited_pages = {} /\ next_url = <<>> /\ tp = <<>> /\ mpc = "idle"
    /\ mlog = <<>>

(***************************************************************************)
(* parse_toc (site_ce5d8cdd.py:209-269) and write_chapters_index           *)
(* (crawl_ce5d8cdd.py:224-235).  The page is the sequence of the anchors   *)
(* its chapter-list selectors match, in document order.  An anchor has the *)
(* kind of its href, the number its URL ends with and the kind of its      *)
(* text:                                                                   *)
(*   href: "chap"   /book/1/<sid>.html      "dir"   /book/1/<sid>/         *)
(*         "page"   /about/<sid>.html       "plain" /about                 *)
(*         "inert"  javascript:, #, ...     "empty" no href at all         *)
(*   txt:  "head" a chapter heading; "num" a bare number; "name" another   *)
(*         text; "" no text                                                *)
(***************************************************************************)
TA(hk, sid, txt) == [hk |-> hk, sid |-> sid, txt |-> txt]

\* _is_bad_href, site_ce5d8cdd.py:218-227
IsBadHref(a) == a.hk \in {"inert", "empty"}

\* _looks_like_chapter, site_ce5d8cdd.py:229-245
LooksLikeChapter(a) == a.hk \in {"chap", "dir"} \/ a.txt \in {"head", "num"}

\* site_ce5d8cdd.py:256-257
SiteId(a) == IF a.hk \in {"chap", "dir", "page"} THEN a.sid ELSE 0

Row(a) == [href |-> [hk |-> a.hk, sid |-> a.sid], title |-> a.txt,
           site_id |-> SiteId(a)]

\* site_ce5d8cdd.py:247-258
RECURSIVE Prelim(_)
Prelim(as) ==
    IF as = <<>> THEN <<>>
    ELSE IF IsBadHref(Head(as)) \/ ~LooksLikeChapter(Head(as))
    THEN Prelim(Tail(as))
    ELSE <<Row(Head(as))>> \o Prelim(Tail(as))

DefaultTitle(i) == [kind |-> "default", n |-> i, txt |-> ""]
TextTitle(t) == [kind |-> "text", n |-> 0, txt |-> t]

\* the numbering of site_ce5d8cdd.py:260-268 with the site's own number
NumberedBySiteId(prelim) ==
    [i \in 1..Len(prelim) |->
        [no |-> prelim[i].site_id,
         title |-> IF prelim[i].title = "" THEN DefaultTitle(i)
                   ELSE TextTitle(prelim[i].title),
         href |-> prelim[i].href,
         site_id |-> prelim[i].site_id]]

\* site_ce5d8cdd.py:260-268
Numbered(prelim) ==
    [i \in 1..Len(prelim) |->
        [no |-> i,
         title |-> IF prelim[i].title = "" THEN DefaultTitle(i)
                   ELSE TextTitle(prelim[i].title),
         href |-> prelim[i].href,
         site_id |-> prelim[i].site_id]]

ParseToc(page) == Numbered(Prelim(page))

\* the decimal digits of n
RECURSIVE Digits(_)
Digits(n) == IF n < 10 THEN <<n>> ELSE Append(Digits(n \div 10), n % 10)

\* f"{no:04d}", crawl_ce5d8cdd.py:231
Pad4(n) ==
    LET d == Digits(n)
    IN  [k \in 1..(IF Len(d) < 4 THEN 4 - Len(d) ELSE 0) |-> 0] \o d

\* write_chapters_index for a table that is not empty,
\* crawl_ce5d8cdd.py:226-235
ChaptersIndex(items) ==
    [present |-> TRUE,
     list |-> [i \in 1..Len(items) |->
                 [no |-> items[i].no, title |-> items[i].title,
                  slug |-> Pad4(items[i].no)]],
     source_map |->
        [sl \in {Pad4(items[i].no) : i \in 1..Len(items)} |->
            LET last == CHOOSE i \in 1..Len(items) :
                          /\ Pad4(items[i].no) = sl
                          /\ \A j \in (i + 1)..Len(items) : Pad4(items[j].no) # sl
            IN  [href |-> items[last].href, site_id |-> items[last].site_id]]]

NoChaptersJson == [present |-> FALSE, list |-> <<>>, source_map |-> <<>>]

\* what an earlier run on the same book directory left
OldChaptersJson == ChaptersIndex(ParseToc(<<TA("chap", 9, "name")>>))

TocAnchors ==
    { TA("chap", 1, "name"), TA("chap", 2, ""), TA("chap", 1, "head"),
      TA("dir", 3, "name"), TA("page", 7, "head"), TA("page", 7, "name"),
      TA("plain", 0, "num"), TA("inert", 0, "head"), TA("empty", 0, "num") }

TocInit ==
    /\ toc_page \in SeqsUpTo(TocAnchors, MaxTocAnchors)
    /\ toc_items = <<>>
    /\ chapters_json \in {NoChaptersJson, OldChaptersJson}
    /\ toc_pc = "parse"

TocIdle ==
    /\ toc_page = <<>> /\ toc_items = <<>> /\ chapters_json = <<>>
    /\ toc_pc = "idle"

\* toc = parse_toc(b_html, book_url), crawl_ce5d8cdd.py:274
ParseTocCall ==
    /\ toc_pc = "parse"
    /\ toc_items' = ParseToc(toc_page)
    /\ toc_pc' = "index"
    /\ UNCHANGED <<toc_page, chapters_json>>
    /\ UNCHANGED <<coreVars, metaVars, poolVars, sessVars, moreVars>>

\* write_chapters_index(book_dir, toc), crawl_ce5d8cdd.py:286 and 224-235
WriteChaptersIndex ==
    /\ toc_pc = "index"
    /\ chapters_json' = IF toc_items = <<>> THEN chapters_json
                        ELSE ChaptersIndex(toc_items)
    /\ toc_pc' = "done"
    /\ UNCHANGED <<toc_page, toc_items>>
    /\ UNCHANGED <<coreVars, metaVars, poolVars, sessVars, moreVars>>

TocNext == ParseTocCall \/ WriteChaptersIndex

(***************************************************************************)
(* parse_book_meta (site_ce5d8cdd.py:62-205): the category and the slug.   *)
(* A detail page is what the selectors of parse_book_meta read in it: its  *)
(* title, the book id of its og:novel:read_url (0 when it has none), its   *)
(* category name and the id its keywords and descriptions match ("" when   *)
(* they match no keyword rule).                                            *)
(***************************************************************************)
MetaPage(title, og, cat, kw) ==
    [title |-> title, og_read |-> og, cat_name |-> cat, kw_hit |-> kw]

EmptyPage == MetaPage("", 0, "", "")          \* the empty string
DeniedPage == MetaPage("Access Denied", 0, "", "")

MetaPages ==
    {EmptyPage, DeniedPage} \cup
    {MetaPage("T", og, cat, kw) :
        og \in {0, 5}, cat \in {"", "xuanhuan-name", "other-name"},
        kw \in {"", "dushi"}}

DefaultCategoryId == "other"     \* get_default_category_id() of crawl.common

\* map_category_name of crawl.common: the id of the rule that matches the
\* name, the default id when no rule matches
MapCategoryName(rules, name) ==
    IF name \in DOMAIN rules THEN rules[name] ELSE DefaultCategoryId

\* match_category_by_keywords of crawl.common on the blob of
\* site_ce5d8cdd.py:131-136
MatchCategoryByKeywords(page) == page.kw_hit

\* site_ce5d8cdd.py:128-142
CategoryIdOf(page, rules, hint) ==
    LET byName == MapCategoryName(rules, page.cat_name)
        byKeywords == IF byName = DefaultCategoryId
                         /\ MatchCategoryByKeywords(page) # ""
                      THEN MatchCategoryByKeywords(page) ELSE byName
    IN  IF byKeywords = DefaultCategoryId /\ hint # "" THEN hint
        ELSE byKeywords

\* _extract_site_book_id, site_ce5d8cdd.py:58-60: the digits that follow the
\* lower-case characters /book/, 0 for the empty string
ExtractSiteBookId(u) ==
    LET I == {i \in 1..(Len(u) - 1) : u[i] = W("book") /\ u[i + 1].k \in {"n", "nh"}}
    IN  IF I = {} THEN 0 ELSE u[(CHOOSE i \in I : \A j \in I : i <= j) + 1].v

\* site_ce5d8cdd.py:175-179
SiteBookIdOf(page, u) ==
    IF ExtractSiteBookId(u) # 0 THEN ExtractSiteBookId(u) ELSE page.og_read

\* slug_seed, site_ce5d8cdd.py:181
Seed(page, u) ==
    IF SiteBookIdOf(page, u) # 0
    THEN [kind |-> "id", id |-> SiteBookIdOf(page, u), title |-> ""]
    ELSE [kind |-> "host-title", id |-> 0, title |-> page.title]

SlugLen == 5           \* site_ce5d8cdd.py:48
AlphabetLen == 36      \* site_ce5d8cdd.py:51

\* int(md5(seed).hexdigest()[:10], 16), site_ce5d8cdd.py:49-50: a number
\* that the seed determines.  The five characters of the slug read it
\* modulo 36^5, which is the part kept here.
Md5Num(seed) ==
    LET t == CASE seed.title = "" -> 11
               [] seed.title = "T" -> 23
               [] OTHER -> 37
    IN  ((seed.id * 7919003) + (t * 40503) + 977) % (AlphabetLen ^ SlugLen)

\* the loop of site_ce5d8cdd.py:52-56: the places in the alphabet of the
\* characters of the slug
RECURSIVE SlugChars(_, _)
SlugChars(num, n) ==
    IF n = 0 THEN <<>>
    ELSE <<num % AlphabetLen>> \o SlugChars(num \div AlphabetLen, n - 1)

StableSlug(seed) == SlugChars(Md5Num(seed), SlugLen)

\* parse_book_meta: the fields of BookMeta the model follows
ParseBookMeta(page, u, hint, rules) ==
    [slug |-> StableSlug(Seed(page, u)),
     category_id |-> CategoryIdOf(page, rules, hint),
     site_book_id |-> SiteBookIdOf(page, u)]

BookUrls == { B(5), BU(5), <<W("novel"), N(5), E>> }

RuleSets ==
    { <<>>,
      "xuanhuan-name" :> "xuanhuan",
      "xuanhuan-name" :> "xuanhuan" @@ "other-name" :> DefaultCategoryId }

NoMeta == [done |-> FALSE, slug |-> <<>>, category_id |-> "", site_book_id |-> 0]

MetaInit ==
    /\ book_url \in BookUrls
    /\ meta_html \in [1..2 -> MetaPages]
    /\ cat_rules \in RuleSets
    /\ category_hint \in {"", "lishi"}
    /\ meta_out = [c \in 1..2 |-> NoMeta]

MetaIdle ==
    /\ book_url = <<>> /\ meta_html = <<>> /\ cat_rules = <<>>
    /\ category_hint = "" /\ meta_out = <<>>

\* meta = parse_book_meta(b_html, book_url, category_hint=...),
\* crawl_ce5d8cdd.py:255
ParseMetaCall(c) ==
    /\ ~meta_out[c].done
    /\ c = 2 => meta_out[1].done
    /\ meta_out' = [meta_out EXCEPT ![c] =
          [done |-> TRUE] @@
          ParseBookMeta(meta_html[c], book_url, category_hint, cat_rules)]
    /\ UNCHANGED <<book_url, meta_html, cat_rules, category_hint>>
    /\ UNCHANGED <<coreVars, tocVars, poolVars, sessVars, moreVars>>

FirstMetaCall == ParseMetaCall(1)
SecondMetaCall == ParseMetaCall(2)

MetaNext == FirstMetaCall \/ SecondMetaCall

(***************************************************************************)
(* The book directories.  main submits one process_book per url of found   *)
(* (crawl_ce5d8cdd.py:462-465); a pipeline fetches the book page, takes    *)
(* meta["slug"] from parse_book_meta, creates data/novels/<slug> and       *)
(* writes meta.json, toc.json and chapters.json there                      *)
(* (crawl_ce5d8cdd.py:247-286).  book_concurrency is at least 4, so the    *)
(* pipelines of a list of up to MaxListed urls all run at once.            *)
(***************************************************************************)
MaxListed == 3

ListedLinks ==
    { BookLink(B(5)), BookLink(<<W("book"), NH(5)>>),
      BookLink(<<W("book"), N(5), W("index.html")>>), BookLink(B(6)) }

ListingPages == SeqsUpTo(ListedLinks, MaxListed)

BookPages == { MetaPage("T", 0, "", ""), EmptyPage }

NoPipe == [st |-> "queued", slug |-> <<>>]

NovelsInit ==
    novels \in { [page |-> p, listed |-> FALSE, found |-> <<>>, pipe |-> <<>>] :
                    p \in ListingPages }

NovelsOnly == UNCHANGED <<coreVars, tocVars, metaVars, poolVars, sessVars, plan>>

\* found = list_books_in_category(html, cat_url) and the submit of one
\* process_book per url, crawl_ce5d8cdd.py:428, 463
DispatchFound ==
    /\ ~novels.listed
    /\ LET fnd == ListBooksInCategory(novels.page, ScenarioCat) IN
       novels' = [novels EXCEPT !.listed = TRUE, !.found = fnd,
                                !.pipe = [i \in 1..Len(fnd) |-> NoPipe]]
    /\ NovelsOnly

\* crawl_ce5d8cdd.py:247-271: the fetch of the book page raises, or
\* parse_book_meta gives the slug and ensure_dir creates the directory
OpenBookDir(i, page, exc) ==
    /\ novels.listed
    /\ novels.pipe[i].st = "queued"
    /\ novels' = [novels EXCEPT !.pipe[i] =
          IF exc THEN [st |-> "raised", slug |-> <<>>]
          ELSE [st |-> "open",
                slug |-> ParseBookMeta(page, novels.found[i], "", <<>>).slug]]
    /\ NovelsOnly

\* save_json(meta.json), save_json(toc.json), write_chapters_index,
\* crawl_ce5d8cdd.py:284-286
SaveBookFiles(i) ==
    /\ novels.listed
    /\ novels.pipe[i].st = "open"
    /\ novels' = [novels EXCEPT !.pipe[i].st = "saved"]
    /\ NovelsOnly

\* the chapter files are written and process_book returns,
\* crawl_ce5d8cdd.py:288-351
BookReturns(i) ==
    /\ novels.listed
    /\ novels.pipe[i].st = "saved"
    /\ novels' = [novels EXCEPT !.pipe[i].st = "done"]
    /\ NovelsOnly

OpenSomeBookDir ==
    \E i \in 1..MaxListed, page \in BookPages, exc \in BOOLEAN :
        i <= Len(novels.pipe) /\ OpenBookDir(i, page, exc)

SaveSomeBookFiles ==
    \E i \in 1..MaxListed : i <= Len(novels.pipe) /\ SaveBookFiles(i)

SomeBookReturns ==
    \E i \in 1..MaxListed : i <= Len(novels.pipe) /\ BookReturns(i)

NovelsNext ==
    \/ DispatchFound
    \/ OpenSomeBookDir
    \/ SaveSomeBookFiles
    \/ SomeBookReturns

(***************************************************************************)
(* The two tiers of thread pools: main submits one process_book per book   *)
(* to a pool of book_concurrency workers (crawl_ce5d8cdd.py:462-476);      *)
(* process_book submits one fetch_one per chapter to a pool of             *)
(* inner_workers workers (crawl_ce5d8cdd.py:316-330).  A pool starts its   *)
(* tasks in the order of submission, a task when a worker is free.  The    *)
(* chapter pool  is followed for book 1.                                    *)
(***************************************************************************)
Min2(a, b) == IF a < b THEN a ELSE b
Max2(a, b) == IF a > b THEN a ELSE b

\* x or y, for numbers
OrElse(x, y) == IF x # 0 THEN x ELSE y

\* the outer width without its lower clamp
BookConcurrencyNoFloor(t) == Min2(12, OrElse(t \div 2, 4))

\* book_concurrency, crawl_ce5d8cdd.py:462
BookConcurrency(t) == Max2(4, Min2(12, OrElse(t \div 2, 4)))

\* inner_workers, crawl_ce5d8cdd.py:316
InnerWorkers(t) == Max2(8, Min2(t, 24))

ThreadBudgets == (-4)..MaxThreads

\* the futures of the book pool, counted by where they are
NoBooks == [queued |-> 0, running |-> 0, returned |-> 0, partial |-> 0,
            raised |-> 0, counted |-> 0, logged |-> 0]

NoChap == [queued |-> 0, running |-> 0, done |-> 0, phase |-> "none"]

PoolInit ==
    /\ threads \in ThreadBudgets
    /\ bpool = NoBooks
    /\ chap = NoChap
    /\ ok = 0
    /\ ppc = "submit"

PoolIdle ==
    /\ threads = 0 /\ bpool = <<>> /\ chap = <<>> /\ ok = 0 /\ ppc = "idle"

PoolOnly == UNCHANGED <<coreVars, tocVars, metaVars, sessVars, moreVars>>

\* crawl_ce5d8cdd.py:466: one future per book found
SubmitBooks ==
    /\ ppc = "submit"
    /\ bpool' = [bpool EXCEPT !.queued = PoolBooks]
    /\ ppc' = "collect"
    /\ UNCHANGED <<threads, chap, ok>>
    /\ PoolOnly

\* a free worker of the book pool takes the next future
StartBook ==
    /\ bpool.queued > 0
    /\ bpool.running < BookConcurrency(threads)
    /\ bpool' = [bpool EXCEPT !.queued = @ - 1, !.running = @ + 1]
    /\ UNCHANGED <<threads, chap, ok, ppc>>
    /\ PoolOnly

\* crawl_ce5d8cdd.py:317-323: the book followed submits its chapters
SubmitChapters ==
    /\ bpool.running > 0
    /\ chap.phase = "none"
    /\ chap' = [queued |-> PoolChapters, running |-> 0, done |-> 0,
                phase |-> "pool"]
    /\ UNCHANGED <<threads, bpool, ok, ppc>>
    /\ PoolOnly

\* a free worker of the chapter pool takes the next fetch_one
StartChapter ==
    /\ chap.phase = "pool"
    /\ chap.queued > 0
    /\ chap.running < InnerWorkers(threads)
    /\ chap' = [chap EXCEPT !.queued = @ - 1, !.running = @ + 1]
    /\ UNCHANGED <<threads, bpool, ok, ppc>>
    /\ PoolOnly

\* fetch_one returns (it never raises, crawl_ce5d8cdd.py:313-314)
EndChapter ==
    /\ chap.phase = "pool"
    /\ chap.running > 0
    /\ chap' = [chap EXCEPT !.running = @ - 1, !.done = @ + 1,
                            !.phase = IF chap.queued = 0 /\ chap.running = 1
                                      THEN "over" ELSE "pool"]
    /\ UNCHANGED <<threads, bpool, ok, ppc>>
    /\ PoolOnly

\* a running book that is not waiting for its chapter pool
CanEnd == bpool.running > (IF chap.phase = "pool" THEN 1 ELSE 0)

\* process_book returns 1, crawl_ce5d8cdd.py:290 and 351; residual says
\* that chapters were still failed after the retry rounds (349-350)
ReturnBook(residual) ==
    /\ CanEnd
    /\ bpool' = IF residual
                THEN [bpool EXCEPT !.running = @ - 1, !.partial = @ + 1]
                ELSE [bpool EXCEPT !.running = @ - 1, !.returned = @ + 1]
    /\ UNCHANGED <<threads, chap, ok, ppc>>
    /\ PoolOnly

\* process_book raises an Exception
RaiseBook ==
    /\ CanEnd
    /\ bpool' = [bpool EXCEPT !.running = @ - 1, !.raised = @ + 1]
    /\ UNCHANGED <<threads, chap, ok, ppc>>
    /\ PoolOnly

\* the as_completed loop counting only the books without residual failures
CollectReturnedStrict ==
    /\ ppc = "collect"
    /\ \/ /\ bpool.returned > 0
          /\ bpool' = [bpool EXCEPT !.returned = @ - 1, !.counted = @ + 1]
          /\ ok' = ok + 1
       \/ /\ bpool.partial > 0
          /\ bpool' = [bpool EXCEPT !.partial = @ - 1, !.counted = @ + 1]
          /\ ok' = ok
    /\ UNCHANGED <<threads, chap, ppc>>
    /\ PoolOnly

\* the as_completed loop on a future that returned: ok += fu.result(),
\* crawl_ce5d8cdd.py:467-469
CollectReturned ==
    /\ ppc = "collect"
    /\ \/ /\ bpool.returned > 0
          /\ bpool' = [bpool EXCEPT !.returned = @ - 1, !.counted = @ + 1]
       \/ /\ bpool.partial > 0
          /\ bpool' = [bpool EXCEPT !.partial = @ - 1, !.counted = @ + 1]
    /\ ok' = ok + 1
    /\ UNCHANGED <<threads, chap, ppc>>
    /\ PoolOnly

\* the as_completed loop on a future that raised: the Exception is
\* printed, crawl_ce5d8cdd.py:472-474
CollectRaised ==
    /\ ppc = "collect"
    /\ bpool.raised > 0
    /\ bpool' = [bpool EXCEPT !.raised = @ - 1, !.logged = @ + 1]
    /\ UNCHANGED <<threads, chap, ok, ppc>>
    /\ PoolOnly

\* crawl_ce5d8cdd.py:476: every future was taken, main prints the count
PoolDone ==
    /\ ppc = "collect"
    /\ bpool.counted + bpool.logged = PoolBooks
    /\ ppc' = "done"
    /\ UNCHANGED <<threads, bpool, chap, ok>>
    /\ PoolOnly

ReturnSomeBook == \E r \in BOOLEAN : ReturnBook(r)

PoolNext ==
    \/ SubmitBooks
    \/ StartBook
    \/ SubmitChapters
    \/ StartChapter
    \/ EndChapter
    \/ ReturnSomeBook
    \/ RaiseBook
    \/ CollectReturned
    \/ CollectRaised
    \/ PoolDone

(***************************************************************************)
(* The HTTP sessions.  _get_session (crawl_ce5d8cdd.py:52-65) keeps the    *)
(* session of the calling thread in _THREAD_LOCAL.s and creates it on the  *)
(* first call.  main calls it once (415), a book worker at the start of    *)
(* every process_book (249), a chapter worker in every fetch_one (309);    *)
(* the session returned is the one given to fetch_text and to the          *)
(* user-agent rewrite of _fetch_with_retry (201, 211).  A pool thread runs *)
(* several tasks one after the other.                                      *)
(***************************************************************************)
Threads == {"main", "book1", "chap1", "chap2"}

\* one attribute s for all threads, as a module global would be
SlotShared(t) == "main"

\* the slot of _THREAD_LOCAL that thread t sees: its own
Slot(t) == t

\* the k-th session created by thread t
Session(t, k) == <<t, k>>
Sessions == {Session(t, k) : t \in Threads, k \in 1..MaxTasks}

NoUse == [fetch |-> {}, ua |-> {}]

Idle(n) == [pc |-> "idle", held |-> None, left |-> n, att |-> 0]

SessInit ==
    /\ tls = [t \in Threads |-> None]
    /\ created = [t \in Threads |-> 0]
    /\ sth = [t \in Threads |-> Idle(IF t = "main" THEN 1 ELSE MaxTasks)]
    /\ suse = [x \in Sessions |-> NoUse]

SessIdle ==
    /\ tls = <<>> /\ created = <<>> /\ sth = <<>> /\ suse = <<>>

SessOnly == UNCHANGED <<coreVars, tocVars, metaVars, poolVars, moreVars>>

\* _get_session called by thread t at the start of a task
GetSession(t) ==
    /\ sth[t].pc = "idle"
    /\ sth[t].left > 0
    /\ LET old == tls[Slot(t)]
           s == IF old = None THEN Session(t, created[t] + 1) ELSE old
       IN  /\ tls' = [tls EXCEPT ![Slot(t)] = s]
           /\ created' = IF old = None THEN [created EXCEPT ![t] = @ + 1]
                         ELSE created
           /\ sth' = [sth EXCEPT ![t] = [pc |-> "fetch", held |-> s,
                                         left |-> @.left, att |-> 0]]
    /\ UNCHANGED suse
    /\ SessOnly

\* fetch_one on an inert href returns before it asks for a session,
\* crawl_ce5d8cdd.py:305-307
SkipTask(t) ==
    /\ t \in {"chap1", "chap2"}
    /\ sth[t].pc = "idle"
    /\ sth[t].left > 0
    /\ sth' = [sth EXCEPT ![t].left = @ - 1]
    /\ UNCHANGED <<tls, created, suse>>
    /\ SessOnly

\* fetch_text(s, url) by thread t; good ends the task
FetchText(t, good) ==
    /\ sth[t].pc = "fetch"
    /\ suse' = [suse EXCEPT ![sth[t].held].fetch = @ \cup {t}]
    /\ sth' = [sth EXCEPT ![t] =
                  IF good THEN Idle(@.left - 1)
                  ELSE IF t = "main" THEN [@ EXCEPT !.att = @ + 1]
                  ELSE [@ EXCEPT !.pc = "sleep"]]
    /\ good \/ t # "main" \/ sth[t].att + 1 < ChapterTries
    /\ UNCHANGED <<tls, created>>
    /\ SessOnly

\* the backoff of _fetch_with_retry in thread t, with the user-agent
\* rewrite when a pool is configured, crawl_ce5d8cdd.py:208-214
Rotate(t, pooled) ==
    /\ sth[t].pc = "sleep"
    /\ suse' = IF pooled
               THEN [suse EXCEPT ![sth[t].held].ua = @ \cup {t}]
               ELSE suse
    /\ sth' = [sth EXCEPT ![t] =
                  IF @.att + 1 = ChapterTries THEN Idle(@.left - 1)
                  ELSE [@ EXCEPT !.pc = "fetch", !.att = @ + 1]]
    /\ UNCHANGED <<tls, created>>
    /\ SessOnly

GetSomeSession == \E t \in Threads : GetSession(t)
SkipSomeTask == \E t \in Threads : SkipTask(t)
SomeFetchText == \E t \in Threads, good \in BOOLEAN : FetchText(t, good)
SomeRotate == \E t \in Threads, pooled \in BOOLEAN : Rotate(t, pooled)

SessNext ==
    \/ GetSomeSession
    \/ SkipSomeTask
    \/ SomeFetchText
    \/ SomeRotate

CoreIdle == FetchIdle /\ BookIdle /\ MainIdle /\ NextIdle /\ RootIdle

MoreIdle == plan = <<>> /\ novels = <<>>

LaterIdle == TocIdle /\ MetaIdle /\ PoolIdle /\ SessIdle /\ MoreIdle

FetchNext ==
    \/ \E r \in FetchRuns : Attempt(r)
    \/ \E r \in FetchRuns : Backoff(r)
    \/ \E r \in FetchRuns : Exhausted(r)

InitFetch == FetchInit /\ BookIdle /\ MainIdle /\ NextIdle /\ RootIdle /\ LaterIdle

SpecFetch == InitFetch /\ [][FetchNext]_vars

InitBook == BookInit /\ FetchIdle /\ MainIdle /\ NextIdle /\ RootIdle /\ LaterIdle

SpecBook == InitBook /\ [][BookNext]_vars

InitRoot == RootInit /\ FetchIdle /\ BookIdle /\ MainIdle /\ NextIdle /\ LaterIdle

InitResume == ResumeInit /\ FetchIdle /\ MainIdle /\ NextIdle /\ RootIdle /\ LaterIdle

SpecResume == InitResume /\ [][ResumeNext]_vars

InitInert == InertInit /\ FetchIdle /\ MainIdle /\ NextIdle /\ RootIdle /\ LaterIdle

SpecInert == InitInert /\ [][ResumeNext]_vars

InitOrder ==
    /\ OrderInit /\ FetchIdle /\ MainIdle /\ NextIdle /\ RootIdle
    /\ TocIdle /\ MetaIdle /\ PoolIdle /\ SessIdle

SpecOrder == InitOrder /\ [][OrderNext]_vars

SpecRoot == InitRoot /\ [][RootNext]_vars

InitMain == MainInit /\ FetchIdle /\ BookIdle /\ NextIdle /\ RootIdle /\ LaterIdle

SpecMain == InitMain /\ [][MainNext]_vars

InitNextPage == NextInit /\ FetchIdle /\ BookIdle /\ MainIdle /\ RootIdle /\ LaterIdle

SpecNextPage == InitNextPage /\ [][NextPageNext]_vars

InitToc == TocInit /\ CoreIdle /\ MetaIdle /\ PoolIdle /\ SessIdle /\ MoreIdle

SpecToc == InitToc /\ [][TocNext]_vars

InitMeta == MetaInit /\ CoreIdle /\ TocIdle /\ PoolIdle /\ SessIdle /\ MoreIdle

SpecMeta == InitMeta /\ [][MetaNext]_vars

InitNovels ==
    /\ NovelsInit /\ CoreIdle /\ TocIdle /\ MetaIdle /\ PoolIdle /\ SessIdle
    /\ plan = <<>>

SpecNovels == InitNovels /\ [][NovelsNext]_vars

InitPools == PoolInit /\ CoreIdle /\ TocIdle /\ MetaIdle /\ SessIdle /\ MoreIdle

SpecPools == InitPools /\ [][PoolNext]_vars

InitSession == SessInit /\ CoreIdle /\ TocIdle /\ MetaIdle /\ PoolIdle /\ MoreIdle

SpecSession == InitSession /\ [][SessNext]_vars

SetMin(S) == CHOOSE x \in S : \A y \in S : x <= y
SetMax(S) == CHOOSE x \in S : \A y \in S : x >= y

\* The attempts of a run whose outcome is a body that is neither empty nor
\* an error page, and those that received a body at all.
GoodAttempts(outs) ==
    {k \in 1..Len(outs) : ~outs[k].exc /\ IsGood(outs[k].body)}
ReceivedAttempts(outs) == {k \in 1..Len(outs) : ~outs[k].exc}

(* C7: for every sequence of attempt outcomes, _fetch_with_retry makes at  *)
(* most tries attempts, never raises, returns the first good body with no  *)
(* further attempt, and when every attempt fails returns the most recent   *)
(* body received (the empty string when none was).                         *)
C7_FetchResult ==
    \A r \in FetchRuns :
        LET outs == fetch_outs[r]
            st == fw[r]
            good == GoodAttempts(outs)
            recv == ReceivedAttempts(outs)
        IN  /\ st.pc # "raised"
            /\ st.attempts <= tries
            /\ st.pc = "done" =>
                 IF good # {}
                 THEN /\ st.ret = outs[SetMin(good)].body
                      /\ st.attempts = SetMin(good)
                 ELSE /\ st.attempts = tries
                      /\ st.ret = IF recv = {} THEN EmptyHtml
                                  ELSE outs[SetMax(recv)].body

\* C7's case: an error page, then attempts that raise, and the call is over.
C7_Witness ==
    /\ tries >= 2
    /\ fetch_outs["orig"][1] = Body(ErrVisible)
    /\ \A k \in 2..tries : fetch_outs["orig"][k] = Raise
    /\ fw["orig"].pc = "done"
    /\ fw["orig"].ret = ErrVisible
    /\ fw["orig"].attempts = tries

BothDone == \A r \in FetchRuns : fw[r].pc = "done"

SameRetrying ==
    /\ fw["orig"].attempts = fw["twin"].attempts
    /\ fw["orig"].slept = fw["twin"].slept
    /\ fw["orig"].rotated = fw["twin"].rotated

(* C8 as claimed: replacing attempts that raise by attempts that return an *)
(* empty body changes neither the number of attempts, nor the sleeps and   *)
(* user-agent rotations, nor the value returned.                           *)
C8_ExceptionAsEmpty_Claimed ==
    BothDone => SameRetrying /\ fw["orig"].ret = fw["twin"].ret

(* C8 as amended: the attempts, sleeps and rotations are the same, and so  *)
(* is the value returned whenever some attempt yields a good body; when    *)
(* every attempt fails the replaced run returns the empty body where the   *)
(* original returns the error page it received before the exception.       *)
C8_ExceptionAsEmpty ==
    BothDone =>
        /\ SameRetrying
        /\ GoodAttempts(fetch_outs["orig"]) # {}
             => fw["orig"].ret = fw["twin"].ret
        /\ fw["orig"].ret # fw["twin"].ret =>
             /\ fw["twin"].ret = EmptyHtml
             /\ fw["orig"].ret # EmptyHtml
             /\ LooksLikeErrorPage(fw["orig"].ret)
             /\ \E k \in 1..tries :
                   /\ fetch_outs["orig"][k] = Raise
                   /\ fetch_outs["twin"][k] = Body(EmptyHtml)
                   /\ \E j \in 1..(k - 1) :
                         fetch_outs["orig"][j] = Body(fw["orig"].ret)

\* C8's case: an attempt that raised was replaced, and both runs are over.
C8_Witness ==
    /\ BothDone
    /\ tries >= 2
    /\ \E k \in 1..tries :
          fetch_outs["orig"][k] = Raise /\ fetch_outs["twin"][k] # Raise
    /\ fw["orig"].ret = fw["twin"].ret
    /\ fw["orig"].ret = GoodMid

(* C1: a chapter for which every attempt of _fetch_with_retry returned an  *)
(* error page is a soft failure: it is queued for retry and no chapter     *)
(* file is ever written from an error-page body.  (A completed chapter is  *)
(* either saved or queued, so it is enough to say that none is saved from  *)
(* an error page.)                                                         *)
C1_ErrorPageIsSoftFailure == blog.fromErr = {}

(* C2 as claimed: when process_book is run again on the same book with an  *)
(* unchanged table of contents and overwrite off, after a run that saved   *)
(* every chapter (the guard of Rerun), the second run fetches and writes   *)
(* nothing, whatever the chapters contain.                                 *)
C2_IdempotentResume_Claimed ==
    run = 2 => blog.wrote = {} /\ blog.fetched = {}

(* C2 as amended: the same, provided every chapter file the first run left *)
(* is larger than 10 bytes.                                                *)
C2_IdempotentResume ==
    run = 2 /\ blog.prevAllBig =>
        /\ blog.wrote = {}
        /\ blog.fetched = {}
        /\ bpc \notin {"scan", "submit"} => futs = <<>>

\* C2's case: the second run of a book of two chapters or more is over.
C2_Witness ==
    /\ run = 2
    /\ blog.prevAllBig
    /\ Len(toc) >= 2
    /\ bpc = "done"
    /\ rd = 0

\* q holds no chapter more often than p does, the hrefs compared as
\* fetch_one compares them (lower-cased).
SubQueue(q, p) ==
    \A i \in 1..Len(q) :
        Cardinality({k \in 1..Len(q) : q[k][1] = q[i][1]}) <=
        Cardinality({j \in 1..Len(p) : /\ p[j][1] = q[i][1]
                                       /\ Lower(p[j][2]) = Lower(q[i][2])})

\* A retry round of this invocation is over: fails is the queue it left and
\* blog.qprev the queue that entered it.
RoundOver == bpc \in {"rounds", "done"} /\ rd >= 1

(* C3 as claimed: the queue a retry round leaves is a sub-collection of    *)
(* the queue that entered it, so its size never increases; after the last  *)
(* round it is empty or equal to the queue that entered the last round.    *)
C3_RetryConvergence_Claimed ==
    RoundOver =>
        /\ SubQueue(fails, blog.qprev)
        /\ Len(fails) <= Len(blog.qprev)
        /\ bpc = "done" =>
              \/ fails = <<>>
              \/ SubQueue(fails, blog.qprev) /\ SubQueue(blog.qprev, fails)

(* C3 as amended: the queue a retry round leaves is a sub-collection of    *)
(* the queue that entered it (the same chapters, no chapter twice), so its *)
(* size never increases; the pipeline ends with an empty queue or with all *)
(* rounds used, and the queue it ends with is any sub-collection of the    *)
(* queue that entered the last round.                                      *)
C3_RetryConvergence ==
    /\ RoundOver =>
          /\ SubQueue(fails, blog.qprev)
          /\ Len(fails) <= Len(blog.qprev)
    /\ bpc = "done" => fails = <<>> \/ rd = RoundCount
    /\ bpc \in {"rounds", "done"} => rd <= RoundCount

\* C3's case: two rounds ran and the last one saved some of its chapters
\* and left the others queued.
C3_Witness ==
    /\ bpc = "done"
    /\ rd = 2
    /\ fails # <<>>
    /\ Len(fails) < Len(blog.qprev)

\* A page-1 root: a path of words that ends with a word or with digits
\* (/xuanhuan, /list/10) and is not a page of a category.
IsPageOneRoot(u) ==
    /\ u # <<>>
    /\ \A i \in 1..Len(u) : u[i].k \in {"w", "n"} /\ u[i] # E
    /\ \A i \in 1..Len(u) : u[i] = W("page") => i = Len(u)
    /\ \A i \in 1..Len(u) : u[i].k = "n" => i = Len(u) /\ i > 1

(* C10: _category_root is idempotent on an already-normalised root: for    *)
(* every category URL u, _category_root(_category_root(u)) =               *)
(* _category_root(u), and _category_root(r) = r for every page-1 root r    *)
(* (roots whose last segment is numeric, such as /list/10, included).      *)
C10_RootIdempotent ==
    /\ cr_twice.set => cr_twice.url = cr_out.url
    /\ cr_out.set /\ IsPageOneRoot(cr_in) => cr_out.url = cr_in

NoDup(q) == \A i, j \in 1..Len(q) : q[i] = q[j] => i = j

(* C4: with max_books = M > 0 the list found never holds more than M URLs, *)
(* after the first page, after the pagination chain and after the template *)
(* enumeration, and at most M book pipelines are dispatched.               *)
C4_MaxBooksCap ==
    max_books > 0 =>
        /\ Len(found) <= max_books
        /\ Len(mlog.dispatched) <= max_books

\* a capped run that went through the chain and left a listed book out
C4_Witness ==
    /\ mpc = "done"
    /\ max_books > 0
    /\ Len(mlog.dispatched) = max_books
    /\ \E i \in 1..Len(mlog.pages) :
          /\ mlog.pages[i].stage = 2
          /\ LET books == ListBooksInCategory(Fetch(site, mlog.pages[i].url).page, mlog.pages[i].base)
             IN  \E k \in 1..Len(books) : ~Has(found, books[k])

\* the books of the i-th page listed, as the page shows them
Shown(i) ==
    LET pg == Fetch(site, mlog.pages[i].url).page
    IN  {UrlJoin(mlog.pages[i].base, pg[k].href) : k \in {x \in 1..Len(pg) : HasHref(pg[x])}}

\* the first page listed that shows u
FirstShownOn(u) ==
    CHOOSE i \in 1..Len(mlog.pages) :
        /\ u \in Shown(i)
        /\ \A j \in 1..(i - 1) : u \notin Shown(j)

\* the place of the first anchor of the page that leads to u
DocPos(i, u) ==
    LET pg == Fetch(site, mlog.pages[i].url).page
    IN  CHOOSE k \in 1..Len(pg) :
            /\ HasHref(pg[k]) /\ UrlJoin(mlog.pages[i].base, pg[k].href) = u
            /\ \A x \in 1..(k - 1) :
                  ~(HasHref(pg[x]) /\ UrlJoin(mlog.pages[i].base, pg[x].href) = u)

\* the place of u in the extraction: the anchors whose href holds /book/
\* come first, in document order, then the other anchors
ExtractPos(i, u) ==
    LET pg == Fetch(site, mlog.pages[i].url).page
        lit == {k \in 1..Len(pg) :
                  /\ HasHref(pg[k]) /\ HasBookLiteral(pg[k].href)
                  /\ UrlJoin(mlog.pages[i].base, pg[k].href) = u}
    IN  IF lit # {} THEN CHOOSE k \in lit : \A x \in lit : k <= x
        ELSE Len(pg) + DocPos(i, u)

StagesInOrder ==
    \A i, j \in 1..Len(found) :
        i < j => mlog.pages[FirstShownOn(found[i])].stage
                    <= mlog.pages[FirstShownOn(found[j])].stage

InScenario ==
    /\ site = ScenarioSite
    /\ cat_url = ScenarioCat
    /\ max_books = 0
    /\ mpc = "done"

(* C6 as stated: five book links and a rel="next" link to a second page    *)
(* with three book links, one of them on the first page already, no cap,   *)
(* no template page: eight book URLs, no URL twice, in order.              *)
C6_Scenario_Claimed ==
    InScenario => Len(found) = 8 /\ NoDup(found)

(* C6: in that scenario the list found holds seven book URLs, no URL       *)
(* twice: the five of the first page in their order, then the two new ones *)
(* of the second page in their order.                                      *)
C6_Scenario ==
    InScenario => found = <<B(1), B(2), B(3), B(4), B(5), B(6), B(7)>>

C6_Witness ==
    /\ InScenario
    /\ Len(mlog.pages) = 2
    /\ Len(mlog.dispatched) = 7

(* C9: _find_next_page returns the target of the first strategy, in the    *)
(* order (a) a.next in ul.pagination#pagelink, (b) a[rel=next], (c) the    *)
(* link after li.active, (d) a ">" link in the #pagelink list then in any  *)
(* pagination list, that yields a non-empty href; a page with both (a) and *)
(* (b) returns the link of (a); a page where no strategy yields returns    *)
(* null.                                                                   *)
C9_PaginationPriority ==
    np_out.done =>
        LET yields == {st \in 1..5 : Truthy(FirstHref(np_page, st))}
            best == CHOOSE st \in yields : \A o \in yields : st <= o
        IN  /\ yields = {} => np_out.next = Unset
            /\ yields # {} =>
                  np_out.next = Val(UrlJoin(np_url, FirstHref(np_page, best)))
            /\ 1 \in yields /\ 2 \in yields =>
                  np_out.next = Val(UrlJoin(np_url, FirstHref(np_page, 1)))

\* the rel="next" link comes first in the page, the a.next link is returned
C9_Witness ==
    /\ np_out.done
    /\ Len(np_page) = 2
    /\ np_page[1] = A(HUrl(Target(2)), "none", {"rel"})
    /\ np_page[2] = A(HUrl(Target(1)), "pagelink", {"next"})
    /\ np_out.next = Val(Target(1))

\* A category root as the claim means it: a page-1 root that does not end
\* with the word page.
IsCategoryRoot(u) == IsPageOneRoot(u) /\ Last(u) # W("page")

\* u is the root r followed by one page segment
IsPageOf(u, r) ==
    \/ Len(u) = Len(r) + 1 /\ Front(u) = r /\ Last(u).k \in {"ix", "n", "nh"}
    \/ /\ Len(u) = Len(r) + 2
       /\ SubSeq(u, 1, Len(r)) = r
       /\ u[Len(u) - 1] = W("page")
       /\ Last(u).k = "n"

(* C11: for every category root R and page number n, _category_root maps   *)
(* R/index_n.html, R/n, R/n.html and R/page/n to exactly R: one trailing   *)
(* page segment is removed and nothing more.                               *)
C11_RootOfPage ==
    cr_out.set =>
        \A r \in {SubSeq(cr_in, 1, k) : k \in 1..Len(cr_in)} :
            IsCategoryRoot(r) /\ IsPageOf(cr_in, r) => cr_out.url = r

\* the anchors of the page that survive both filters, by their places
Surviving(page) ==
    {k \in 1..Len(page) :
        /\ page[k].hk \notin {"inert", "empty"}
        /\ page[k].hk \in {"chap", "dir"} \/ page[k].txt \in {"head", "num"}}

\* the place in the page of the i-th surviving anchor
NthSurviving(page, i) ==
    CHOOSE k \in Surviving(page) :
        Cardinality({j \in Surviving(page) : j <= k}) = i

TocNumbered ==
    toc_pc \in {"index", "done"} =>
        /\ Len(toc_items) = Cardinality(Surviving(toc_page))
        /\ \A i \in 1..Len(toc_items) :
              /\ toc_items[i].no = i
              /\ toc_items[i].href.hk = toc_page[NthSurviving(toc_page, i)].hk
              /\ toc_items[i].href.sid = toc_page[NthSurviving(toc_page, i)].sid

IndexMatchesToc ==
    /\ Len(chapters_json.list) = Len(toc_items)
    /\ \A i \in 1..Len(toc_items) :
          /\ chapters_json.list[i].no = toc_items[i].no
          /\ chapters_json.list[i].slug = Pad4(toc_items[i].no)
          /\ Len(chapters_json.list[i].slug) = 4

(* C12 as stated: the ChapterRefs of parse_toc are numbered 1..N, N the    *)
(* number of anchors that survive the two filters, the chapter numbered i  *)
(* being the i-th surviving anchor whatever its site id; chapters.json     *)
(* lists the same chapters in the same order, the slug being the           *)
(* zero-padded number.                                                     *)
C12_TocNumbering_Claimed ==
    /\ TocNumbered
    /\ toc_pc = "done" => IndexMatchesToc

(* C12: the same, chapters.json being written when N > 0; when no anchor   *)
(* survives chapters.json is left as it was.                               *)
C12_TocNumbering ==
    /\ TocNumbered
    /\ toc_pc = "done" /\ toc_items # <<>> => chapters_json.present /\ IndexMatchesToc
    /\ toc_pc = "done" /\ toc_items = <<>> =>
          chapters_json \in {NoChaptersJson, OldChaptersJson}

\* three chapters numbered against the order of their site ids, one anchor
\* of the page dropped
C12_Witness ==
    /\ toc_pc = "done"
    /\ Len(toc_page) = 3
    /\ Len(toc_items) = 2
    /\ toc_items[1].site_id > toc_items[2].site_id
    /\ chapters_json.list[2].slug = <<0, 0, 0, 2>>

(* C13: whenever a configured category rule matches the category name of  *)
(* the page, parse_book_meta returns the id of that rule, never the        *)
(* keyword match or the hint of the caller, for every target id of the     *)
(* rule, the default category id included.                                 *)
C13_CategoryRulesFirst ==
    \A c \in 1..2 :
        meta_out[c].done /\ meta_html[c].cat_name \in DOMAIN cat_rules =>
            meta_out[c].category_id = cat_rules[meta_html[c].cat_name]

\* the URL carries a book id: /book/<digits>, as _looks_like_book reads it
CarriesBookId(u) ==
    \E i \in 1..(Len(u) - 1) :
        /\ u[i].k = "w" /\ LowerWord(u[i].w) = "book"
        /\ u[i + 1].k \in {"n", "nh"}

(* C17: the slug has 5 characters of the 36-letter alphabet and is a       *)
(* function of the seed; the seed is the book id of the URL whenever the   *)
(* URL carries one; hence two calls of parse_book_meta for the same book   *)
(* URL, when it carries an id, return the same slug whatever the page      *)
(* fetched is (a good page, the empty page, an error page).                *)
C17_SlugDeterminism ==
    /\ \A c \in 1..2 : meta_out[c].done =>
          /\ Len(meta_out[c].slug) = 5
          /\ \A k \in 1..5 : meta_out[c].slug[k] \in 0..35
    /\ CarriesBookId(book_url) /\ meta_out[1].done /\ meta_out[2].done =>
          meta_out[1].slug = meta_out[2].slug


(***************************************************************************)
(* C14  Whole-book failure isolation.  A book whose pipeline raises an     *)
(* Exception is logged and nothing else: as long as main has not printed   *)
(* its final count some step of the pools or of main is possible, so the   *)
(* other books go on to their end; the count of main is at every moment    *)
(* the number of collected futures that returned, with or without          *)
(* residual failed chapters; when main is done every book was either       *)
(* counted or logged.  Checked on SpecPools.                               *)
(***************************************************************************)
C14_FailureIsolation ==
    ppc \in {"submit", "collect", "done"} =>
        /\ ok = bpool.counted
        /\ ppc # "done" => ENABLED PoolNext
        /\ ppc = "done" =>
              /\ bpool.counted + bpool.logged = PoolBooks
              /\ ok = PoolBooks - bpool.logged

\* main is done, a book raised, the others were counted
C14_Witness ==
    /\ ppc = "done"
    /\ bpool.logged = 1
    /\ ok = PoolBooks - 1

(***************************************************************************)
(* C16  Bounded concurrency.  For every thread budget the width of the     *)
(* book pool is in 4..12 and the width of a chapter pool is in 8..24; the  *)
(* running book pipelines are never more than the first width, the running *)
(* chapter fetches of the book never more than the second.  Checked on     *)
(* SpecPools.                                                              *)
(***************************************************************************)
C16_BoundedConcurrency ==
    ppc \in {"submit", "collect", "done"} =>
        /\ BookConcurrency(threads) \in 4..12
        /\ InnerWorkers(threads) \in 8..24
        /\ bpool.running <= BookConcurrency(threads)
        /\ chap.running <= InnerWorkers(threads)

\* a budget of zero or less, both pools full with tasks waiting
C16_Witness ==
    /\ threads <= 0
    /\ bpool.running = BookConcurrency(threads)
    /\ bpool.queued > 0
    /\ chap.running = InnerWorkers(threads)
    /\ chap.queued > 0


(***************************************************************************)
(* C15  Per-thread sessions.  Whatever the interleaving of main, the book  *)
(* worker and the chapter workers, a thread creates at most one session,   *)
(* the session a thread holds is the one it created, and the fetches and   *)
(* the user-agent rewrites on a session are all made by the thread that    *)
(* created it.  Checked on SpecSession.                                    *)
(***************************************************************************)
C15_PerThreadSessions ==
    sth # <<>> =>
        /\ \A t \in Threads :
              /\ created[t] <= 1
              /\ sth[t].held # None => sth[t].held[1] = t
        /\ \A x \in Sessions :
              suse[x].fetch \cup suse[x].ua \subseteq {x[1]}

\* a chapter worker ran all its tasks on the one session it created, with
\* fetches and a user-agent rewrite, while the other threads used theirs
C15_Witness ==
    /\ sth # <<>>
    /\ created["chap1"] = 1
    /\ sth["chap1"].left = 0
    /\ suse[Session("chap1", 1)] = [fetch |-> {"chap1"}, ua |-> {"chap1"}]
    /\ suse[Session("chap2", 1)].fetch = {"chap2"}
    /\ suse[Session("book1", 1)].fetch = {"book1"}
    /\ suse[Session("main", 1)].fetch = {"main"}


(***************************************************************************)
(* C18  Pagination chain.  In the loop over the next links no url is       *)
(* requested twice and the category url is not requested again; every url  *)
(* requested is the next link of a page of the site, and every one but the *)
(* last answered (a fetch exception ends the loop); once the loop is left  *)
(* the resolver gave nothing, or gave a url already visited (a repeated    *)
(* url, or the one whose fetch raised), or the cap is reached.  The turns  *)
(* of the loop are at most the next links of the site, cycles and          *)
(* self-links included.                                                    *)
(* Checked on SpecMain.                                                    *)
(***************************************************************************)
NextTargets(st) ==
    { FindNextPage(st[u], u).url :
        u \in {v \in DOMAIN st : FindNextPage(st[v], v).set} }

C18_PaginationChain ==
    mpc \in {"first", "chain", "templates", "paged", "dispatch", "done"} =>
        LET tried == mlog.tried IN
        /\ NoDup(tried)
        /\ ~Has(tried, cat_url)
        /\ \A i \in 1..Len(tried) :
              /\ tried[i] \in NextTargets(site)
              /\ i < Len(tried) => tried[i] \in DOMAIN site
        /\ Len(tried) <= Cardinality(NextTargets(site))
        /\ mpc \in {"templates", "paged", "dispatch", "done"} =>
              \/ ~next_url.set
              \/ next_url.url \in visited_pages
              \/ Capped(max_books, found)

\* two pages were fetched along the chain and the second links to itself
C18_Witness ==
    /\ mpc = "templates"
    /\ Len(mlog.tried) = 2
    /\ mlog.tried[2] \in DOMAIN site
    /\ next_url.set
    /\ next_url.url = mlog.tried[2]
    /\ ~Capped(max_books, found)

(***************************************************************************)
(* C19  Template enumeration.  try_paged_category asks for the page        *)
(* numbers 2, 3, ... in turn; for each number it requests the four         *)
(* template urls in order, all four unless the cap ends it; a number all   *)
(* of whose requests raise contributes nothing; a further number is asked  *)
(* only after one that contributed a new url and did not reach the cap,    *)
(* and the enumeration returns exactly when a number contributed nothing   *)
(* or the cap is reached.  Every number but the last adds a url, so the    *)
(* numbers asked are at most one more than the urls found; the result has  *)
(* no duplicates and, with a nonzero max_books, at most max_books entries. *)
(* Checked on SpecMain.                                                    *)
(***************************************************************************)
IsPrefixOf(a, b) == Len(a) <= Len(b) /\ SubSeq(b, 1, Len(a)) = a

C19_TemplateEnumeration ==
    mpc \in {"first", "chain", "templates", "paged", "dispatch", "done"} =>
        LET rs == mlog.rounds
            root == CategoryRoot(cat_url)
        IN  /\ \A i \in 1..Len(rs) :
                  /\ rs[i].n = i + 1
                  /\ IsPrefixOf(rs[i].asked, Patterns(root, i + 1))
                  /\ ~rs[i].capped => rs[i].asked = Patterns(root, i + 1)
                  /\ rs[i].capped => tp.budget # 0
                  /\ (\A k \in 1..Len(rs[i].asked) :
                         rs[i].asked[k] \notin DOMAIN site) => rs[i].hit = 0
                  /\ i < Len(rs) => rs[i].hit > 0 /\ ~rs[i].capped
            /\ tp.returned <=>
                  /\ Len(rs) > 0
                  /\ rs[Len(rs)].hit = 0 \/ rs[Len(rs)].capped
            /\ Len(rs) <= Len(tp.found) + 1
            /\ NoDup(tp.found)
            /\ tp.budget # 0 => Len(tp.found) <= tp.budget

\* the numbers 2 and 3 contributed, some of their urls raised, the number 4
\* contributed nothing and the enumeration returned
C19_Witness ==
    /\ mpc = "paged"
    /\ tp.returned
    /\ Len(mlog.rounds) = 3
    /\ mlog.rounds[3].hit = 0
    /\ mlog.rounds[1].hit > 0
    /\ \E k \in 1..4 : mlog.rounds[1].asked[k] \notin DOMAIN site


(***************************************************************************)
(* C20  Skip-existing frame.  With overwrite off, a chapter whose file was *)
(* larger than 10 bytes when process_book scanned the directory is not     *)
(* submitted, is passed to no fetch and written by no save, is in no retry *)
(* queue, and its file stays what it was, through the first pass and every *)
(* retry round; the chapters submitted are exactly the others.  With       *)
(* overwrite on every chapter of the table of contents is submitted.       *)
(* Checked on SpecResume.                                                  *)
(***************************************************************************)
KeptAtStart ==
    {n \in Chapters : /\ blog.start[n].exists
                      /\ FileSize(blog.start[n].paras) > MinFileSize}

Queued(q) == {q[k][1] : k \in 1..Len(q)}
Submitted == {futs[k].ch.no : k \in 1..Len(futs)}

C20_SkipExisting ==
    bpc \in {"submit", "first", "rounds", "retry", "done"} =>
        /\ ~overwrite =>
              /\ \A n \in KeptAtStart :
                    /\ n \notin blog.fetched
                    /\ n \notin blog.wrote
                    /\ files[n] = blog.start[n]
                    /\ n \notin Submitted
                    /\ n \notin Queued(fails) \cup Queued(f2)
              /\ bpc = "first" => Submitted = Chapters \ KeptAtStart
        /\ overwrite /\ bpc = "first" =>
              /\ Submitted = Chapters
              /\ Len(futs) = Len(toc)

\* overwrite off, chapter 1 had a file of 90 bytes, chapter 2 was fetched
\* in the first pass and in two retry rounds, the file of chapter 1 is as
\* it was
C20_Witness ==
    /\ ~overwrite
    /\ bpc = "done"
    /\ rd = 2
    /\ blog.start # <<>>
    /\ blog.start[1] = OldBig
    /\ files[1] = OldBig
    /\ 2 \in blog.fetched


(***************************************************************************)
(* C21  Completion-order independence.  With the outcome of every call of  *)
(* fetch_one fixed, whatever the order in which the chapter tasks of the   *)
(* first pass and of the retry rounds complete: after the first pass and   *)
(* after every round the files are those of the chapters whose good call   *)
(* was made, each holding the text of its page, and the queue holds the    *)
(* other chapters, once each; at the end the saved chapters are those      *)
(* whose good call comes within 1 + max(0, retry_rounds) calls and the     *)
(* residual failures are the others.  The file names of two chapters       *)
(* differ.  Checked on SpecOrder.                                          *)
(***************************************************************************)
PlannedFile(n, calls) ==
    IF plan[n].at <= calls THEN File(ParseChapterContent(GoodLong)) ELSE NoFile

C21_OrderIndependence ==
    plan # <<>> /\ bpc \in {"rounds", "done"} =>
        /\ \A n \in Chapters : files[n] = PlannedFile(n, rd + 1)
        /\ Queued(fails) = {n \in Chapters : plan[n].at > rd + 1}
        /\ Len(fails) = Cardinality(Queued(fails))
        /\ bpc = "done" =>
              /\ \A n \in Chapters : files[n] = PlannedFile(n, 1 + RoundCount)
              /\ Queued(fails) = {n \in Chapters : plan[n].at > 1 + RoundCount}
        /\ \A m, n \in Chapters :
              m # n => Pad4(toc[m].no) # Pad4(toc[n].no)

\* both chapters failed twice and chapter 2 was taken before chapter 1 in
\* the retry round
C21_Witness ==
    /\ plan # <<>>
    /\ bpc = "rounds"
    /\ rd = 1
    /\ Len(fails) = 2
    /\ fails[1][1] = 2


(***************************************************************************)
(* C22 as claimed: a chapter is passed to _fetch_with_retry at most        *)
(* 1 + retry_rounds times in one invocation (a chapter that was fetched    *)
(* was submitted at most that often).                                      *)
(***************************************************************************)
C22_RetryRoundsExact_Claimed ==
    bpc \in {"first", "rounds", "retry", "done"} =>
        \A n \in Chapters :
            n \in blog.fetched => blog.subs[n] <= 1 + retry_rounds

(***************************************************************************)
(* C22 as amended: one invocation runs at most max(0, retry_rounds) retry  *)
(* rounds and starts none on an empty queue; a round submits exactly the   *)
(* chapters of the queue, once each, none of them saved before; a saved    *)
(* chapter is in no queue; fetch_one is submitted for a chapter, and so    *)
(* _fetch_with_retry called for it, at most 1 + max(0, retry_rounds)       *)
(* times.  Checked on SpecBook.                                            *)
(***************************************************************************)
MaxRounds == IF retry_rounds > 0 THEN retry_rounds ELSE 0

C22_RetryRoundsExact ==
    bpc \in {"first", "rounds", "retry", "done"} =>
        /\ rd <= MaxRounds
        /\ bpc = "retry" =>
              /\ rd < MaxRounds
              /\ blog.qprev # <<>>
              /\ Submitted = Queued(blog.qprev)
              /\ Len(futs) = Len(blog.qprev)
              /\ Len(futs) = Cardinality(Submitted)
              /\ \A k \in 1..Len(futs) :
                    futs[k].st = "pending" => futs[k].ch.no \notin blog.wrote
        /\ \A n \in Chapters :
              /\ blog.subs[n] <= 1 + MaxRounds
              /\ n \in blog.fetched => blog.subs[n] >= 1
              /\ n \in blog.wrote =>
                    /\ n \notin Queued(f2)
                    /\ bpc # "retry" => n \notin Queued(fails)

\* two rounds were run: chapter 1 was submitted three times, chapter 2 was
\* saved in the first pass and submitted once
C22_Witness ==
    /\ bpc = "done"
    /\ rd = 2
    /\ Len(toc) = 2
    /\ blog.subs[1] = 3
    /\ blog.subs[2] = 1
    /\ 2 \in blog.wrote


(***************************************************************************)
(* C23: two pipelines of one run that hold a book directory at the same    *)
(* time hold different directories: distinct urls of the dispatched list   *)
(* have distinct slugs.  Checked on SpecNovels.                            *)
(***************************************************************************)
Holding(i) == novels.pipe[i].st \in {"open", "saved"}

C23_SingleWriter ==
    novels.listed =>
        \A i, j \in 1..Len(novels.found) :
            i # j =>
                /\ novels.found[i] # novels.found[j]
                /\ Holding(i) /\ Holding(j) =>
                      novels.pipe[i].slug # novels.pipe[j].slug

(***************************************************************************)
(* C24: a chapter whose href fetch_one takes for inert is never passed to  *)
(* _fetch_with_retry, never in the retry queue, not submitted in a retry   *)
(* round and not among the chapters reported as still failed.  Checked on  *)
(* SpecInert.                                                              *)
(***************************************************************************)
InertChapters == {n \in Chapters : IsInert(Lower(toc[n].href))}

C24_InertNotRetried ==
    bpc \in {"first", "rounds", "retry", "done"} =>
        \A n \in InertChapters :
            /\ n \notin blog.fetched
            /\ n \notin Queued(fails)
            /\ n \notin Queued(f2)
            /\ bpc = "retry" => n \notin Submitted

(***************************************************************************)
(* C25: when process_book returns, every chapter of the table of contents  *)
(* is in exactly one of three groups: skipped for its file, saved in this  *)
(* invocation, or in the residual queue that is reported, which holds a    *)
(* chapter once.  Checked on SpecResume.                                   *)
(***************************************************************************)
C25_ChapterAccounting ==
    bpc = "done" =>
        /\ Chapters = existing_prefix \cup blog.wrote \cup Queued(fails)
        /\ existing_prefix \cap blog.wrote = {}
        /\ existing_prefix \cap Queued(fails) = {}
        /\ blog.wrote \cap Queued(fails) = {}
        /\ Len(fails) = Cardinality(Queued(fails))

\* chapter 1 was skipped, chapter 2 went through every round and is reported
C25_Witness ==
    /\ bpc = "done"
    /\ Len(toc) = 2
    /\ existing_prefix = {1}
    /\ Queued(fails) = {2}
    /\ rd = 2

(***************************************************************************)
(* C26: with max_books = M > 0 and k < M urls collected by the first page  *)
(* and the chain of next links, when the pages listed by                   *)
(* try_paged_category hold at least M - k book urls not collected before,  *)
(* the final list has exactly M urls, and no url collected before is in    *)
(* the list try_paged_category returns against its budget.  Checked on     *)
(* SpecMain.                                                               *)
(***************************************************************************)
\* the urls collected before try_paged_category was entered
EarlyFound == {found[i] : i \in 1..(max_books - tp.budget)}

\* the pages try_paged_category listed
TemplatePagesRead ==
    {mlog.pages[i].url : i \in {j \in 1..Len(mlog.pages) : mlog.pages[j].stage = 3}}

\* the book urls of those pages
TemplateOffer ==
    UNION {{ListBooksInCategory(site[u], cat_url)[i] :
              i \in 1..Len(ListBooksInCategory(site[u], cat_url))} :
           u \in TemplatePagesRead}

C26_CapReached ==
    mpc \in {"dispatch", "done"} /\ max_books > 0 /\ tp.n >= 1 =>
        /\ Cardinality(TemplateOffer \ EarlyFound) >= tp.budget =>
              Len(found) = max_books
        /\ \A i \in 1..Len(tp.found) : tp.found[i] \notin EarlyFound

==============================================================================
